---- MODULE Spec2Model ----
(***************************************************************************)
(* KarabinerPyX: the layer compiler (karabinerpyx/layer.py), the macro     *)
(* template registry (karabinerpyx/templates.py) and the document models   *)
(* (karabinerpyx/models.py) as a state machine.                            *)
(*                                                                         *)
(* Python values are modelled by TLA+ values of the same shape: a dict is  *)
(* a record (a function on its keys), a list is a sequence, a str is a     *)
(* string.  Where the code tests the Python type of a value (str | dict |  *)
(* list | None) the value carries its type in a "py" tag.                  *)
(***************************************************************************)
EXTENDS Integers, Sequences, FiniteSets, TLC

VARIABLES
    layer,      \* the LayerStackBuilder object (NoLayer before construction)
    out,        \* outcome of the last call made on the layer
    registry,   \* templates.MACRO_TEMPLATES
    heap,       \* the list objects the script passed to the layer and still holds
    ret,        \* the trees a script got from build_rules() and Rule.build()
    config,     \* the script's KarabinerConfig, None before it is made
    compiled,   \* what the last config.build() returned or raised
    daemon,     \* the remapping daemon once it runs a layer's rules
    disk,       \* the target file, its backups, the reloads asked for, the clock
    saved,      \* what the last save_config() returned or raised
    proc        \* the command that runs: run_watch, or a service command

vars == <<layer, out, registry, heap, ret, config, compiled, daemon, disk, saved, proc>>

-----------------------------------------------------------------------------
(* Python values *)

None == [py |-> "None"]
Str(s) == [py |-> "str", v |-> s]
Dict(d) == [py |-> "dict", v |-> d]
List(l) == [py |-> "list", v |-> l]

\* {} : the dict with no keys
EmptyDict == [k \in {} |-> ""]

\* d.get(k, default)
Get(d, k, default) == IF k \in DOMAIN d THEN d[k] ELSE default

\* dict.update: the entries of e override those of d
Update(d, e) == e @@ d

\* "sep".join(keys)
RECURSIVE Join(_, _)
Join(sep, keys) ==
    IF Len(keys) = 0 THEN ""
    ELSE IF Len(keys) = 1 THEN keys[1]
    ELSE keys[1] \o sep \o Join(sep, Tail(keys))

\* any(not key for key in keys)
AnyEmpty(keys) == \E i \in 1..Len(keys) : keys[i] = ""

\* str(index + 1) for the step indices a sequence can have
Digits == <<"1", "2", "3", "4", "5", "6", "7", "8", "9">>
IntStr(n) == Digits[n]

SetVariable(name, value) == [set_variable |-> [name |-> name, value |-> value]]
KeyCode(key) == [key_code |-> key]
VariableIf(name, value) == [type |-> "variable_if", name |-> name, value |-> value]

-----------------------------------------------------------------------------
(* templates.py *)

Lit(s) == [ph |-> FALSE, s |-> s]
Ph(s) == [ph |-> TRUE, s |-> s]

\* The built-in templates, each split at its {placeholders}.
BuiltinTemplates ==
    [ typed_text |->
        << Lit("osascript -e 'tell application \"System Events\" to keystroke \""),
           Ph("text"), Lit("\"'") >>,
      alfred |->
        << Lit("osascript -e 'tell application id \"com.runningwithcrayons.Alfred\" to run trigger \""),
           Ph("trigger"), Lit("\" in workflow \""), Ph("workflow"),
           Lit("\" with argument \""), Ph("arg"), Lit("\"'") >>,
      keyboard_maestro |->
        << Lit("osascript -e 'tell application \"Keyboard Maestro Engine\" to do script \""),
           Ph("script"), Lit("\"'") >>,
      open |-> << Lit("open \""), Ph("path"), Lit("\"") >>,
      shell |-> << Ph("command") >> ]

\* template.format(**kwargs): the first placeholder without a parameter
\* raises KeyError; otherwise the parts are concatenated.
RECURSIVE Format(_, _)
Format(template, kwargs) ==
    IF Len(template) = 0 THEN [ok |-> TRUE, v |-> ""]
    ELSE LET part == Head(template)
             rest == Format(Tail(template), kwargs)
         IN IF part.ph /\ part.s \notin DOMAIN kwargs
            THEN [ok |-> FALSE, v |-> part.s]
            ELSE IF ~rest.ok THEN rest
            ELSE [ok |-> TRUE,
                  v |-> (IF part.ph THEN kwargs[part.s] ELSE part.s) \o rest.v]

\* make_shell_command(template_name, **kwargs) against the registry reg
make_shell_command(reg, template_name, kwargs) ==
    IF template_name \notin DOMAIN reg
    THEN [ok |-> FALSE, exc |-> "ValueError: Unknown template"]
    ELSE LET command == Format(reg[template_name], kwargs)
         IN IF ~command.ok
            THEN [ok |-> FALSE, exc |-> "ValueError: Missing template parameter"]
            ELSE [ok |-> TRUE, v |-> << [shell_command |-> command.v] >>]

\* Mutant: a name that is registered keeps its first template.
register_template_KeepFirst(reg, name, template) ==
    IF name = "" THEN [ok |-> FALSE, exc |-> "ValueError: Template name cannot be empty"]
    ELSE IF Len(template) = 0 THEN [ok |-> FALSE, exc |-> "ValueError: Template cannot be empty"]
    ELSE [ok |-> TRUE, v |-> reg @@ (name :> template)]

\* register_template(name, template) on the registry reg: the registry it
\* leaves, or the ValueError it raises
register_template(reg, name, template) ==
    IF name = "" THEN [ok |-> FALSE, exc |-> "ValueError: Template name cannot be empty"]
    ELSE IF Len(template) = 0 THEN [ok |-> FALSE, exc |-> "ValueError: Template cannot be empty"]
    ELSE [ok |-> TRUE, v |-> (name :> template) @@ reg]

-----------------------------------------------------------------------------
(* models.py: RawManipulator and Rule *)

\* the values that are not a str among those a record holds under "type"
NotStr == << None, 1 >>

\* isinstance(value, str)
IsStr(value) == \A i \in 1..Len(NotStr) : ToString(value) # ToString(NotStr[i])

\* Mutant: a record without a from entry is accepted.
RawManipulator_NoFromCheck(raw) ==
    IF "type" \notin DOMAIN raw \/ ~IsStr(raw.type)
    THEN [ok |-> FALSE, exc |-> "ValueError: Raw manipulator requires string field 'type'"]
    ELSE [ok |-> TRUE, v |-> [cls |-> "RawManipulator", raw |-> raw]]

\* RawManipulator(raw): the validated wrapper, or the ValueError it raises
RawManipulator(raw) ==
    IF "type" \notin DOMAIN raw \/ ~IsStr(raw.type)
    THEN [ok |-> FALSE, exc |-> "ValueError: Raw manipulator requires string field 'type'"]
    ELSE IF "from" \notin DOMAIN raw
    THEN [ok |-> FALSE, exc |-> "ValueError: Raw manipulator requires field 'from'"]
    ELSE [ok |-> TRUE, v |-> [cls |-> "RawManipulator", raw |-> raw]]

\* RawManipulator.build(): deepcopy(self.raw), a tree equal to self.raw
RawManipulatorBuild(m) == m.raw

\* a call that raised exc, and a call that returned v
Raise(exc) == [ok |-> FALSE, exc |-> exc]
Return(v) == [ok |-> TRUE, v |-> v]

-----------------------------------------------------------------------------
(* models.py: Manipulator *)

\* Manipulator(from_key): the dataclass constructor, every list empty
Manipulator(from_key) ==
    [ cls |-> "Manipulator", from_key |-> from_key,
      mandatory_modifiers |-> << >>, optional_modifiers |-> << >>,
      to_keys |-> << >>, to_if_alone |-> << >>, to_if_held_down |-> << >>,
      conditions |-> << >> ]

\* Manipulator.modifiers(mandatory, optional): an empty list or None adds nothing
modifiers(self, mandatory, optional) ==
    [ self EXCEPT !.mandatory_modifiers = @ \o mandatory,
                  !.optional_modifiers = @ \o optional ]

\* the target dict of to(), if_alone() and if_held()
Target(key, mods, extra) ==
    Update(IF Len(mods) > 0 THEN [key_code |-> key, modifiers |-> mods]
           ELSE [key_code |-> key], extra)

to(self, key, mods, extra) ==
    [self EXCEPT !.to_keys = Append(@, Target(key, mods, extra))]

to_raw(self, action) == [self EXCEPT !.to_keys = Append(@, action)]

if_alone(self, key, mods, extra) ==
    [self EXCEPT !.to_if_alone = Append(@, Target(key, mods, extra))]

if_held(self, key, mods, extra) ==
    [self EXCEPT !.to_if_held_down = Append(@, Target(key, mods, extra))]

\* [app_identifiers] if isinstance(app_identifiers, str) else app_identifiers
AppList(app_identifiers) ==
    IF app_identifiers.py = "str" THEN << app_identifiers.v >> ELSE app_identifiers.v

manip_when_app(self, app_identifiers) ==
    [self EXCEPT !.conditions = Append(@,
        [type |-> "frontmost_application_if",
         bundle_identifiers |-> AppList(app_identifiers)])]

manip_when_variable(self, var_name, value) ==
    [self EXCEPT !.conditions = Append(@, VariableIf(var_name, value))]

manip_unless_app(self, app_identifiers) ==
    [self EXCEPT !.conditions = Append(@,
        [type |-> "frontmost_application_unless",
         bundle_identifiers |-> AppList(app_identifiers)])]

manip_unless_variable(self, var_name, value) ==
    [self EXCEPT !.conditions = Append(@,
        [type |-> "variable_unless", name |-> var_name, value |-> value])]

\* Mutant: every list is emitted, the empty ones as empty arrays.
ManipulatorBuild_EmitsEmpty(self) ==
    IF self.from_key = ""
    THEN Raise("ValueError: from_key cannot be empty")
    ELSE Return([ type |-> "basic",
                  from |-> [ key_code |-> self.from_key,
                             modifiers |-> [ mandatory |-> self.mandatory_modifiers,
                                             optional |-> self.optional_modifiers ] ],
                  to |-> self.to_keys,
                  to_if_alone |-> self.to_if_alone,
                  to_if_held_down |-> self.to_if_held_down,
                  conditions |-> self.conditions ])

\* Manipulator.build(): the tree, or the ValueError of an empty from_key.
\* It reads self and copies every list it emits.
ManipulatorBuild(self) ==
    IF self.from_key = ""
    THEN Raise("ValueError: from_key cannot be empty")
    ELSE LET mods ==
                 (IF Len(self.mandatory_modifiers) > 0
                  THEN [mandatory |-> self.mandatory_modifiers] ELSE EmptyDict)
                 @@ (IF Len(self.optional_modifiers) > 0
                     THEN [optional |-> self.optional_modifiers] ELSE EmptyDict)
             from_dict ==
                 IF Len(self.mandatory_modifiers) > 0 \/ Len(self.optional_modifiers) > 0
                 THEN [key_code |-> self.from_key, modifiers |-> mods]
                 ELSE [key_code |-> self.from_key]
             manip == [type |-> "basic", from |-> from_dict]
         IN Return(
              manip
              @@ (IF Len(self.to_keys) > 0 THEN [to |-> self.to_keys] ELSE EmptyDict)
              @@ (IF Len(self.to_if_alone) > 0
                  THEN [to_if_alone |-> self.to_if_alone] ELSE EmptyDict)
              @@ (IF Len(self.to_if_held_down) > 0
                  THEN [to_if_held_down |-> self.to_if_held_down] ELSE EmptyDict)
              @@ (IF Len(self.conditions) > 0
                  THEN [conditions |-> self.conditions] ELSE EmptyDict))

-----------------------------------------------------------------------------
(* layer.py: SimultaneousManipulator *)

\* SimultaneousManipulator(combo_keys, to_key, variable_name, conditions, **options)
SimultaneousManipulator(combo_keys, to_key, variable_name, conditions, options) ==
    IF Len(combo_keys) < 2
    THEN [ok |-> FALSE, exc |-> "ValueError: combo_keys must contain at least two keys"]
    ELSE IF AnyEmpty(combo_keys)
    THEN [ok |-> FALSE, exc |-> "ValueError: combo_keys cannot contain empty keys"]
    ELSE [ok |-> TRUE,
          v |-> [cls |-> "SimultaneousManipulator",
                 combo_keys |-> combo_keys,
                 to_target |-> IF to_key.py = "list" THEN to_key.v
                               ELSE << KeyCode(to_key.v) >>,
                 variable_name |-> variable_name,
                 extra_conditions |-> conditions,
                 options |-> options]]

\* bool(value) of a simultaneity option: the flag is a bool, the others are str
Truthy(key, value) ==
    IF key = "detect_key_down_uninterruptedly" THEN value = TRUE ELSE value # ""

\* Mutant: every truthy option is kept, the default values included.
KeepOption_Truthy(key, value) == Truthy(key, value)

\* the filter of the dict comprehension in SimultaneousManipulator.build
KeepOption(key, value) ==
    /\ Truthy(key, value)
    /\ ~(key \in {"key_down_order", "key_up_order"} /\ value = "insensitive")
    /\ ~(key = "key_up_when" /\ value = "any")

SimOptions(options) ==
    [ detect_key_down_uninterruptedly |->
          Get(options, "detect_key_down_uninterruptedly", FALSE),
      key_down_order |-> Get(options, "key_down_order", "insensitive"),
      key_up_order |-> Get(options, "key_up_order", "insensitive"),
      key_up_when |-> Get(options, "key_up_when", "any") ]

FilteredOptions(options) ==
    LET sim_options == SimOptions(options)
    IN [ key \in { k \in DOMAIN sim_options : KeepOption(k, sim_options[k]) }
           |-> sim_options[key] ]

\* SimultaneousManipulator.build()
SimultaneousManipulatorBuild(m) ==
    LET filtered_options == FilteredOptions(m.options)
        from_block ==
            [ simultaneous |-> [ i \in 1..Len(m.combo_keys) |-> KeyCode(m.combo_keys[i]) ],
              modifiers |-> [optional |-> <<"any">>] ]
        result ==
            [ type |-> "basic",
              from |-> IF DOMAIN filtered_options # {}
                       THEN Update(from_block, [simultaneous_options |-> filtered_options])
                       ELSE from_block,
              to |-> m.to_target,
              conditions |-> << VariableIf(m.variable_name, 1) >> \o m.extra_conditions ]
    IN IF "to_after_key_up" \in DOMAIN m.options
       THEN Update(result, [to_after_key_up |-> m.options.to_after_key_up])
       ELSE result

\* m.build() of a Buildable m: the tree, or the exception it raises
Build(m) ==
    IF m.cls = "RawManipulator" THEN Return(RawManipulatorBuild(m))
    ELSE IF m.cls = "SimultaneousManipulator" THEN Return(SimultaneousManipulatorBuild(m))
    ELSE ManipulatorBuild(m)

\* Rule(description).add(manipulator)
Rule(description, manipulator) ==
    [description |-> description, manipulators |-> << manipulator >>]

\* the first exception raised by the items of a list comprehension, if any
FirstRaise(results) ==
    IF \E i \in 1..Len(results) : ~results[i].ok
    THEN Raise(results[CHOOSE i \in 1..Len(results) :
                         /\ ~results[i].ok
                         /\ \A j \in 1..(i - 1) : results[j].ok].exc)
    ELSE Return([ i \in 1..Len(results) |-> results[i].v ])

\* Rule.build()
RuleBuild(rule) ==
    LET built == FirstRaise([ i \in 1..Len(rule.manipulators)
                                |-> Build(rule.manipulators[i]) ])
    IN IF built.ok
       THEN Return([description |-> rule.description, manipulators |-> built.v])
       ELSE built

\* Rule(description), Rule.add(manipulator) and Rule.add_raw(manip_dict)
NewRule(description) == [description |-> description, manipulators |-> << >>]

add(self, manipulator) == [self EXCEPT !.manipulators = Append(@, manipulator)]

add_raw(self, manip_dict) ==
    LET m == RawManipulator(manip_dict)
    IN IF m.ok THEN Return(add(self, m.v)) ELSE m

\* Rule.add_dict(manip_dict): a DeprecationWarning, then add_raw
add_dict(self, manip_dict) == add_raw(self, manip_dict)

\* Profile(name), its dataclass defaults
Profile(name) ==
    [ name |-> name, selected |-> TRUE, rules |-> << >>, devices |-> << >>,
      parameters |-> EmptyDict, virtual_hid_keyboard |-> [country_code |-> 0] ]

add_rule(self, rule) == [self EXCEPT !.rules = Append(@, rule)]

\* Profile.add_device(vendor_id, product_id, disable_built_in_keyboard_if_exists, **extra)
add_device(self, vendor_id, product_id, disable, extra) ==
    LET device ==
            [ identifiers |->
                  [ vendor_id |-> vendor_id, product_id |-> product_id,
                    is_keyboard |-> Get(extra, "is_keyboard", TRUE),
                    is_pointing_device |-> Get(extra, "is_pointing_device", FALSE) ],
              disable_built_in_keyboard_if_exists |-> disable ]
        rest == [ k \in DOMAIN extra \ {"is_keyboard", "is_pointing_device"} |-> extra[k] ]
    IN [self EXCEPT !.devices = Append(@, Update(device, rest))]

set_parameters(self, parameters) == [self EXCEPT !.parameters = Update(@, parameters)]

set_virtual_keyboard(self, country_code) ==
    [self EXCEPT !.virtual_hid_keyboard = [country_code |-> country_code]]

\* Profile.build()
ProfileBuild(self) ==
    LET built == FirstRaise([ i \in 1..Len(self.rules) |-> RuleBuild(self.rules[i]) ])
        complex_modifications ==
            IF DOMAIN self.parameters # {}
            THEN [rules |-> built.v, parameters |-> self.parameters]
            ELSE [rules |-> built.v]
    IN IF built.ok
       THEN Return([ name |-> self.name, selected |-> self.selected,
                     complex_modifications |-> complex_modifications,
                     devices |-> self.devices,
                     virtual_hid_keyboard |-> self.virtual_hid_keyboard ])
       ELSE built

\* KarabinerConfig(), its dataclass defaults
KarabinerConfig ==
    [ cls |-> "KarabinerConfig", profiles |-> << >>,
      global_settings |-> [ check_for_updates_on_startup |-> TRUE,
                            show_in_menu_bar |-> TRUE,
                            show_profile_name_in_menu_bar |-> FALSE ] ]

add_profile(self, profile) == [self EXCEPT !.profiles = Append(@, profile)]

\* KarabinerConfig.build()
KarabinerConfigBuild(self) ==
    LET built == FirstRaise([ i \in 1..Len(self.profiles) |-> ProfileBuild(self.profiles[i]) ])
    IN IF built.ok
       THEN Return([global |-> self.global_settings, profiles |-> built.v])
       ELSE built

-----------------------------------------------------------------------------
(* layer.py: LayerStackBuilder, the builder calls *)

NoLayer == [cls |-> "None"]
NoConfig == [cls |-> "None"]


\* LayerStackBuilder(name, trigger_keys, to_if_alone)
LayerStackBuilder(name, trigger_keys, to_if_alone) ==
    LET keys == IF trigger_keys.py = "list" THEN trigger_keys.v ELSE << trigger_keys.v >>
    IN IF name = "" THEN Raise("ValueError: Layer name cannot be empty")
       ELSE IF Len(keys) = 0 THEN Raise("ValueError: trigger_keys cannot be empty")
       ELSE IF AnyEmpty(keys) THEN Raise("ValueError: trigger_keys cannot contain empty keys")
       ELSE Return([ cls |-> "LayerStackBuilder",
                     name |-> name,
                     trigger_keys |-> keys,
                     to_if_alone |-> to_if_alone,
                     mappings |-> << >>,
                     combos |-> << >>,
                     sequences |-> << >>,
                     sequence_timeout_ms |-> 500,
                     conditions |-> << >> ])

\* LayerStackBuilder.map(from_key, to_key)
map(self, from_key, to_key) ==
    IF from_key = "" THEN Raise("ValueError: from_key cannot be empty")
    ELSE IF to_key.py = "str" /\ to_key.v = "" THEN Raise("ValueError: to_key cannot be empty")
    ELSE Return([self EXCEPT !.mappings = Append(@, [from |-> from_key, to |-> to_key])])

\* LayerStackBuilder.map_combo(combo_keys, to_key, **options)
map_combo(self, combo_keys, to_key, options) ==
    IF Len(combo_keys) < 2 THEN Raise("ValueError: combo_keys must contain at least two keys")
    ELSE IF AnyEmpty(combo_keys) THEN Raise("ValueError: combo_keys cannot contain empty keys")
    ELSE IF to_key.py = "str" /\ to_key.v = "" THEN Raise("ValueError: to_key cannot be empty")
    ELSE Return([self EXCEPT !.combos =
                    Append(@, [keys |-> combo_keys, to |-> to_key, options |-> options])])

\* LayerStackBuilder.map_sequence(seq_keys, to_key)
map_sequence(self, seq_keys, to_key) ==
    IF Len(seq_keys) < 2 THEN Raise("ValueError: seq_keys must contain at least two keys")
    ELSE IF AnyEmpty(seq_keys) THEN Raise("ValueError: seq_keys cannot contain empty keys")
    ELSE IF to_key = "" THEN Raise("ValueError: to_key cannot be empty")
    ELSE Return([self EXCEPT !.sequences = Append(@, [keys |-> seq_keys, to |-> to_key])])

\* LayerStackBuilder.map_macro(from_key, template_type, **params)
map_macro(self, from_key, template_type, params) ==
    IF template_type = "" THEN Raise("ValueError: template_type cannot be empty")
    ELSE Return([self EXCEPT !.mappings =
                    Append(@, [from |-> from_key,
                               to |-> Dict([template |-> template_type, params |-> params])])])

\* the list the app conditions hold: [app] for a str, the list itself otherwise
Apps(app_identifiers) ==
    IF app_identifiers.py = "str" THEN << app_identifiers.v >> ELSE app_identifiers.v

\* LayerStackBuilder.when_app(app_identifiers)
when_app(self, app_identifiers) ==
    Return([self EXCEPT !.conditions =
               Append(@, [type |-> "frontmost_application_if",
                          bundle_identifiers |-> Apps(app_identifiers)])])

\* LayerStackBuilder.unless_app(app_identifiers)
unless_app(self, app_identifiers) ==
    Return([self EXCEPT !.conditions =
               Append(@, [type |-> "frontmost_application_unless",
                          bundle_identifiers |-> Apps(app_identifiers)])])

\* LayerStackBuilder.unless_variable(var_name, value)
unless_variable(self, var_name, value) ==
    Return([self EXCEPT !.conditions =
               Append(@, [type |-> "variable_unless", name |-> var_name, value |-> value])])

\* Mutant: any number of milliseconds is accepted.
set_sequence_timeout_Unchecked(self, ms) == Return([self EXCEPT !.sequence_timeout_ms = ms])

\* LayerStackBuilder.set_sequence_timeout(ms)
set_sequence_timeout(self, ms) ==
    IF ms <= 0 THEN Raise("ValueError: Sequence timeout must be positive")
    ELSE Return([self EXCEPT !.sequence_timeout_ms = ms])

-----------------------------------------------------------------------------
(* layer.py: LayerStackBuilder.build_rules and its four sub-generators *)

\* str(d) of a dict whose values are str, its keys taken in DictKeyOrder
DictKeyOrder == << "key_code", "shell_command", "template", "params" >>

RECURSIVE ReprItems(_, _, _)
ReprItems(d, i, first) ==
    IF i > Len(DictKeyOrder) THEN ""
    ELSE LET k == DictKeyOrder[i]
         IN IF k \in DOMAIN d
            THEN (IF first THEN "" ELSE ", ") \o "'" \o k \o "': '" \o d[k] \o "'"
                     \o ReprItems(d, i + 1, FALSE)
            ELSE ReprItems(d, i + 1, first)

PyRepr(d) == "{" \o ReprItems(d, 1, TRUE) \o "}"

\* A Python list object: its items and which object it is.  "new" is a list
\* created by the expression that returned it; "self.conditions" is the
\* layer's own list.
NewList(items) == [is |-> "new", v |-> items]

\* list.append(item) on a list object: appending to the layer's own list
\* changes the layer.
ListAppend(self, list, item) ==
    IF list.is = "self.conditions"
    THEN [ self |-> [self EXCEPT !.conditions = Append(@, item)],
           list |-> [is |-> "self.conditions", v |-> Append(self.conditions, item)] ]
    ELSE [ self |-> self, list |-> [list EXCEPT !.v = Append(@, item)] ]

\* Mutant: the layer's own list is returned, not a new one.
_layer_conditions_OwnList(self) ==
    [is |-> "self.conditions", v |-> << VariableIf(self.name, 1) >> \o self.conditions]

\* Mutant: the scope conditions come before the layer variable.
_layer_conditions_ScopeFirst(self) ==
    NewList(self.conditions \o << VariableIf(self.name, 1) >>)

\* LayerStackBuilder._layer_conditions(): a new list
_layer_conditions(self) ==
    NewList(<< VariableIf(self.name, 1) >> \o self.conditions)

\* LayerStackBuilder._build_rule(description, from_block, to_actions,
\* conditions, **extra); conditions is None or a list.  The manipulator it
\* wraps always has a str type and a from block, so RawManipulator accepts it.
_build_rule(description, from_block, to_actions, conditions, extra) ==
    LET manip == [type |-> "basic", from |-> from_block, to |-> to_actions]
        withConditions ==
            IF conditions.py = "list" /\ Len(conditions.v) > 0
            THEN Update(manip, [conditions |-> conditions.v])
            ELSE manip
    IN Rule(description, RawManipulator(Update(withConditions, extra)).v)

\* Mutant: the single-key activation rule is scoped like the layer's mappings.
_build_activation_rule_Scoped(self) ==
    IF Len(self.trigger_keys) = 1
    THEN _build_rule(
                self.name \o " activation",
                [key_code |-> self.trigger_keys[1], modifiers |-> [optional |-> <<"any">>]],
                << SetVariable(self.name, 1) >>,
                List(_layer_conditions(self).v),
                [ to_after_key_up |-> << SetVariable(self.name, 0) >>,
                  to_if_alone |-> << KeyCode(self.trigger_keys[1]) >> ])
    ELSE _build_rule(
                self.name \o " stacked activation",
                [ simultaneous |-> [ i \in 1..Len(self.trigger_keys)
                                       |-> KeyCode(self.trigger_keys[i]) ],
                  modifiers |-> [optional |-> <<"any">>] ],
                << SetVariable(self.name, 1) >>,
                None,
                [ to_after_key_up |-> << SetVariable(self.name, 0) >> ])

\* Mutant: the stacked activation rule gets the tap-alone key too.
_build_activation_rule_StackedAlone(self) ==
    LET alone_key == IF self.to_if_alone.py = "str" /\ self.to_if_alone.v # ""
                     THEN self.to_if_alone.v ELSE self.trigger_keys[1]
    IN _build_rule(
           self.name \o (IF Len(self.trigger_keys) = 1 THEN " activation"
                         ELSE " stacked activation"),
           IF Len(self.trigger_keys) = 1
           THEN [key_code |-> self.trigger_keys[1], modifiers |-> [optional |-> <<"any">>]]
           ELSE [ simultaneous |-> [ i \in 1..Len(self.trigger_keys)
                                       |-> KeyCode(self.trigger_keys[i]) ],
                  modifiers |-> [optional |-> <<"any">>] ],
           << SetVariable(self.name, 1) >>,
           None,
           [ to_after_key_up |-> << SetVariable(self.name, 0) >>,
             to_if_alone |-> << KeyCode(alone_key) >> ])

\* Mutant: the tap-alone key is the constructor's argument whenever it is
\* not None, the empty string included.
_build_activation_rule_AloneAsGiven(self) ==
    IF Len(self.trigger_keys) = 1
    THEN LET key == self.trigger_keys[1]
             alone_key == IF self.to_if_alone.py = "str" THEN self.to_if_alone.v ELSE key
         IN _build_rule(
                self.name \o " activation",
                [key_code |-> key, modifiers |-> [optional |-> <<"any">>]],
                << SetVariable(self.name, 1) >>,
                None,
                [ to_after_key_up |-> << SetVariable(self.name, 0) >>,
                  to_if_alone |-> << KeyCode(alone_key) >> ])
    ELSE _build_rule(
                self.name \o " stacked activation",
                [ simultaneous |-> [ i \in 1..Len(self.trigger_keys)
                                       |-> KeyCode(self.trigger_keys[i]) ],
                  modifiers |-> [optional |-> <<"any">>] ],
                << SetVariable(self.name, 1) >>,
                None,
                [ to_after_key_up |-> << SetVariable(self.name, 0) >> ])

\* LayerStackBuilder._build_activation_rule()
_build_activation_rule(self) ==
    IF Len(self.trigger_keys) = 1
    THEN LET key == self.trigger_keys[1]
             alone_key == IF self.to_if_alone.py = "str" /\ self.to_if_alone.v # ""
                          THEN self.to_if_alone.v ELSE key
         IN _build_rule(
                self.name \o " activation",
                [key_code |-> key, modifiers |-> [optional |-> <<"any">>]],
                << SetVariable(self.name, 1) >>,
                None,
                [ to_after_key_up |-> << SetVariable(self.name, 0) >>,
                  to_if_alone |-> << KeyCode(alone_key) >> ])
    ELSE _build_rule(
                self.name \o " stacked activation",
                [ simultaneous |-> [ i \in 1..Len(self.trigger_keys)
                                       |-> KeyCode(self.trigger_keys[i]) ],
                  modifiers |-> [optional |-> <<"any">>] ],
                << SetVariable(self.name, 1) >>,
                None,
                [ to_after_key_up |-> << SetVariable(self.name, 0) >> ])

\* Mutant: a template dict is emitted as an action, like any other dict.
MappingRule_NoMacroBranch(self, reg, entry) ==
    LET from_block == [key_code |-> entry.from, modifiers |-> [optional |-> <<"any">>]]
        conditions == _layer_conditions(self)
        to_actions == IF entry.to.py = "dict" THEN << entry.to.v >>
                      ELSE << KeyCode(entry.to.v) >>
        to_desc == IF entry.to.py = "dict" THEN "dict" ELSE entry.to.v
    IN Return(_build_rule(
           self.name \o ": " \o entry.from \o " -> " \o to_desc,
           from_block, to_actions, List(conditions.v), EmptyDict))

\* the body of the loop of _build_mapping_rules for one entry of self.mappings:
\* the rule, or the exception make_shell_command (or the lookup of "params") raises
MappingRule(self, reg, entry) ==
    LET from_block == [key_code |-> entry.from, modifiers |-> [optional |-> <<"any">>]]
        conditions == _layer_conditions(self)
    IN IF entry.to.py = "dict" /\ "template" \in DOMAIN entry.to.v
       THEN LET template_name == entry.to.v.template
            IN IF "params" \notin DOMAIN entry.to.v THEN Raise("KeyError: 'params'")
               ELSE LET to_actions == make_shell_command(reg, template_name, entry.to.v.params)
                    IN IF ~to_actions.ok THEN to_actions
                       ELSE Return(_build_rule(
                                self.name \o " macro: " \o entry.from \o " -> " \o template_name,
                                from_block, to_actions.v, List(conditions.v), EmptyDict))
       ELSE LET to_actions == IF entry.to.py = "dict" THEN << entry.to.v >>
                              ELSE << KeyCode(entry.to.v) >>
                to_desc == IF entry.to.py = "dict" THEN PyRepr(entry.to.v) ELSE entry.to.v
            IN Return(_build_rule(
                   self.name \o ": " \o entry.from \o " -> " \o to_desc,
                   from_block, to_actions, List(conditions.v), EmptyDict))

\* Mutant: best effort, an entry that raises is left out.
_build_mapping_rules_BestEffort(self, reg) ==
    Return(SelectSeq([ i \in 1..Len(self.mappings) |->
                         MappingRule(self, reg, self.mappings[i]) ],
                     LAMBDA r : r.ok))

\* LayerStackBuilder._build_mapping_rules(): one rule per entry, in order; the
\* first entry that raises ends the loop with its exception
_build_mapping_rules(self, reg) ==
    LET results == [ i \in 1..Len(self.mappings) |-> MappingRule(self, reg, self.mappings[i]) ]
        failed == { i \in 1..Len(results) : ~results[i].ok }
    IN IF failed # {}
       THEN results[CHOOSE i \in failed : \A j \in failed : i <= j]
       ELSE Return([ i \in 1..Len(results) |-> results[i].v ])

\* LayerStackBuilder._build_combo_rules().  SimultaneousManipulator keeps
\* `conditions or []`: the layer's own list when it is not empty.
_build_combo_rules(self) ==
    [ i \in 1..Len(self.combos) |->
        LET combo == self.combos[i]
            to_desc == IF combo.to.py = "str" THEN combo.to.v ELSE "complex"
            manip == SimultaneousManipulator(combo.keys, combo.to, self.name,
                                             self.conditions, combo.options)
        IN Rule(self.name \o " combo " \o Join("+", combo.keys) \o " -> " \o to_desc,
                manip.v) ]

\* the names of the step variables of one sequence (step i is index i - 1)
StepVars(self, seq) ==
    LET seq_name == self.name \o "_seq_" \o Join("_", seq)
    IN [ i \in 1..Len(seq) |-> seq_name \o "_step" \o IntStr(i) ]

\* the conditions of step i: the layer conditions, and for every step but the
\* first the previous step's variable, appended to the list _layer_conditions
\* returned
StepConditions(self, step_vars, i) ==
    LET conditions == _layer_conditions(self)
    IN IF i > 1
       THEN ListAppend(self, conditions, VariableIf(step_vars[i - 1], 1))
       ELSE [self |-> self, list |-> conditions]

\* Mutant: the last step sends the final action and resets nothing.
StepToActions_NoReset(step_vars, i, to_key) ==
    IF i = Len(step_vars)
    THEN << SetVariable(step_vars[i], 1), KeyCode(to_key) >>
    ELSE << SetVariable(step_vars[i], 1) >>

\* the to list of step i
StepToActions(step_vars, i, to_key) ==
    LET reset_all == [ j \in 1..Len(step_vars) |-> SetVariable(step_vars[j], 0) ]
    IN IF i = Len(step_vars)
       THEN << SetVariable(step_vars[i], 1), KeyCode(to_key) >> \o reset_all
       ELSE << SetVariable(step_vars[i], 1) >>

\* Mutant: a canceled step resets its own variable only.
StepCancelActions_OwnOnly(step_vars, i) == << SetVariable(step_vars[i], 0) >>

\* the to_if_canceled list of step i
StepCancelActions(step_vars, i) ==
    IF i > 1
    THEN << SetVariable(step_vars[i], 0), SetVariable(step_vars[i - 1], 0) >>
    ELSE << SetVariable(step_vars[i], 0) >>

\* the body of the inner loop of _build_sequence_rules for step i of one
\* entry of self.sequences: the rule, and the layer after the step was built
SequenceStepRule(self, entry, i) ==
    LET step_vars == StepVars(self, entry.keys)
        conditions == StepConditions(self, step_vars, i)
    IN [ self |-> conditions.self,
         rule |-> _build_rule(
             self.name \o " sequence: " \o Join("+", entry.keys),
             [key_code |-> entry.keys[i], modifiers |-> [optional |-> <<"any">>]],
             StepToActions(step_vars, i, entry.to),
             List(conditions.list.v),
             [ to_delayed_action |->
                   [ to_if_canceled |-> StepCancelActions(step_vars, i),
                     to_if_invoked |-> << >> ],
               parameters |->
                   ("basic.to_delayed_action_delay_milliseconds"
                        :> conditions.self.sequence_timeout_ms) ]) ]

\* LayerStackBuilder._build_sequence_rules(): the steps of each sequence, in
\* order, from sequence s step i on
RECURSIVE BuildSequenceSteps(_, _, _, _)
BuildSequenceSteps(self, s, i, rules) ==
    IF s > Len(self.sequences) THEN [self |-> self, rules |-> rules]
    ELSE IF i > Len(self.sequences[s].keys) THEN BuildSequenceSteps(self, s + 1, 1, rules)
    ELSE LET step == SequenceStepRule(self, self.sequences[s], i)
         IN BuildSequenceSteps(step.self, s, i + 1, Append(rules, step.rule))

\* Mutant: the inner loop starts at the second key of the first sequence.
_build_sequence_rules_SkipsStep(self) == BuildSequenceSteps(self, 1, 2, << >>)

_build_sequence_rules(self) == BuildSequenceSteps(self, 1, 1, << >>)

\* Mutant: the combo generator runs before the mapping generator.
build_rules_CombosFirst(self, reg) ==
    LET activation == _build_activation_rule(self)
        mappings == _build_mapping_rules(self, reg)
    IN IF ~mappings.ok
       THEN [kind |-> "raise", exc |-> mappings.exc, rules |-> << >>, self |-> self]
       ELSE LET combos == _build_combo_rules(self)
                sequences == _build_sequence_rules(self)
            IN [ kind |-> "rules", exc |-> "",
                 rules |-> << activation >> \o combos \o mappings.v \o sequences.rules,
                 self |-> sequences.self ]

\* LayerStackBuilder.build_rules(): the rules it returns or the exception it
\* raises, and the layer as the call leaves it
build_rules(self, reg) ==
    LET activation == _build_activation_rule(self)
        mappings == _build_mapping_rules(self, reg)
    IN IF ~mappings.ok
       THEN [kind |-> "raise", exc |-> mappings.exc, rules |-> << >>, self |-> self]
       ELSE LET combos == _build_combo_rules(self)
                sequences == _build_sequence_rules(self)
            IN [ kind |-> "rules", exc |-> "",
                 rules |-> << activation >> \o mappings.v \o combos \o sequences.rules,
                 self |-> sequences.self ]

-----------------------------------------------------------------------------
(* The calls a script makes on one layer: their arguments *)

MaxCalls == 3       \* mappings + combos + sequences + conditions of the layer

LayerArgs ==
    << [name |-> "hyper", trigger_keys |-> Str("right_command"), to_if_alone |-> None],
       [name |-> "hyper", trigger_keys |-> Str("right_command"), to_if_alone |-> Str("escape")],
       [name |-> "hyper", trigger_keys |-> Str("right_command"), to_if_alone |-> Str("")],
       [name |-> "hyper", trigger_keys |-> List(<< "left_shift", "left_control" >>),
        to_if_alone |-> Str("escape")],
       [name |-> "", trigger_keys |-> Str("right_command"), to_if_alone |-> None],
       [name |-> "hyper", trigger_keys |-> Str(""), to_if_alone |-> None],
       [name |-> "hyper", trigger_keys |-> List(<< >>), to_if_alone |-> None],
       [name |-> "hyper", trigger_keys |-> List(<< "left_shift", "" >>), to_if_alone |-> None] >>

MapArgs ==
    << [from |-> "j", to |-> Str("left_arrow")],
       [from |-> "j", to |-> Dict([shell_command |-> "echo 1"])],
       [from |-> "", to |-> Str("left_arrow")],
       [from |-> "j", to |-> Str("")] >>

MacroArgs ==
    << [from |-> "t", template |-> "typed_text", params |-> [text |-> "Hi"]],
       [from |-> "t", template |-> "typed_text", params |-> EmptyDict],
       [from |-> "", template |-> "nope", params |-> [path |-> "x"]],
       [from |-> "t", template |-> "", params |-> EmptyDict] >>

ComboArgs ==
    << [keys |-> << "j", "k" >>, to |-> Str("escape"), options |-> EmptyDict],
       [keys |-> << "w", "i" >>, to |-> List(<< [shell_command |-> "echo 1"] >>),
        options |-> [detect_key_down_uninterruptedly |-> FALSE,
                     key_down_order |-> "strict",
                     key_up_order |-> "insensitive",
                     key_up_when |-> "all",
                     to_after_key_up |-> << SetVariable("test", 0) >>]],
       [keys |-> << "j" >>, to |-> Str("escape"), options |-> EmptyDict],
       [keys |-> << "j", "" >>, to |-> Str("escape"), options |-> EmptyDict],
       [keys |-> << "j", "k" >>, to |-> Str(""), options |-> EmptyDict] >>

SequenceArgs ==
    << [keys |-> << "g", "g" >>, to |-> "home"],
       [keys |-> << "g", "h", "i" >>, to |-> "end"],
       [keys |-> << "g" >>, to |-> "home"],
       [keys |-> << "g", "" >>, to |-> "home"],
       [keys |-> << "g", "g" >>, to |-> ""] >>

WhenAppArgs == << Str("com.apple.Terminal") >>
UnlessAppArgs == << List(<< "com.apple.Finder", "com.apple.Safari" >>) >>
VariableArgs == << "debug" >>
TimeoutArgs == << 300, 0 >>

-----------------------------------------------------------------------------
(* The calls as actions *)

NoOutcome == [kind |-> "none", op |-> "", exc |-> "", rules |-> << >>, n |-> 0]
Rejected == [kind |-> "rejected", op |-> "", exc |-> "", rules |-> << >>, n |-> 0]

Constructed == layer.cls = "LayerStackBuilder"

Calls(self) ==
    Len(self.mappings) + Len(self.combos) + Len(self.sequences) + Len(self.conditions)

\* a builder call that returned r: the layer it returned, or the exception,
\* which leaves the layer as it was
Call(r) ==
    /\ IF r.ok
       THEN layer' = r.v /\ out' = NoOutcome
       ELSE layer' = layer /\ out' = Rejected
    /\ UNCHANGED <<registry, heap, ret, config, compiled, daemon, disk, saved, proc>>

New ==
    /\ ~Constructed /\ config = NoConfig
    /\ \E a \in 1..Len(LayerArgs) :
           Call(LayerStackBuilder(LayerArgs[a].name, LayerArgs[a].trigger_keys,
                                  LayerArgs[a].to_if_alone))

Map ==
    /\ Constructed /\ Calls(layer) < MaxCalls
    /\ \E a \in 1..Len(MapArgs) : Call(map(layer, MapArgs[a].from, MapArgs[a].to))

MapMacro ==
    /\ Constructed /\ Calls(layer) < MaxCalls
    /\ \E a \in 1..Len(MacroArgs) :
           Call(map_macro(layer, MacroArgs[a].from, MacroArgs[a].template,
                                       MacroArgs[a].params))

MapCombo ==
    /\ Constructed /\ Calls(layer) < MaxCalls
    /\ \E a \in 1..Len(ComboArgs) :
           Call(map_combo(layer, ComboArgs[a].keys, ComboArgs[a].to,
                                       ComboArgs[a].options))

MapSequence ==
    /\ Constructed /\ Calls(layer) < MaxCalls
    /\ \E a \in 1..Len(SequenceArgs) :
           Call(map_sequence(layer, SequenceArgs[a].keys, SequenceArgs[a].to))

WhenApp ==
    /\ Constructed /\ Calls(layer) < MaxCalls
    /\ \E a \in 1..Len(WhenAppArgs) : Call(when_app(layer, WhenAppArgs[a]))

UnlessApp ==
    /\ Constructed /\ Calls(layer) < MaxCalls
    /\ \E a \in 1..Len(UnlessAppArgs) : Call(unless_app(layer, UnlessAppArgs[a]))

UnlessVariable ==
    /\ Constructed /\ Calls(layer) < MaxCalls
    /\ \E a \in 1..Len(VariableArgs) :
           Call(unless_variable(layer, VariableArgs[a], 1))

SetSequenceTimeout ==
    /\ Constructed
    /\ \E a \in 1..Len(TimeoutArgs) :
           Call(set_sequence_timeout(layer, TimeoutArgs[a]))

BuildRules ==
    /\ Constructed
    /\ LET r == build_rules(layer, registry)
       IN /\ layer' = r.self
          /\ out' = [ kind |-> r.kind, op |-> "build_rules", exc |-> r.exc,
                      rules |-> r.rules,
                      n |-> IF out.op = "build_rules" THEN 2 ELSE 1 ]
    /\ UNCHANGED <<registry, heap, ret, config, compiled, daemon, disk, saved, proc>>

NoEvent == [ev |-> "none", rule |-> 0, emitted |-> << >>]
NoDaemon ==
    [ kind |-> "off", rules |-> << >>, variables |-> EmptyDict,
      held |-> {}, pending |-> 0, fired |-> {}, last |-> NoEvent ]
NoHeap == [a \in {} |-> << >>]
Absent == [exists |-> FALSE]
NoDisk == [target |-> Absent, backups |-> EmptyDict, reloads |-> 0, clock |-> 0]
NoSave == [kind |-> "none"]
NoProc == [kind |-> "none"]
NoTrees == [kind |-> "none", trees |-> << >>, touched |-> 0]

-----------------------------------------------------------------------------
(* A script that assembles a document: config = KarabinerConfig(), then    *)
(* profiles, rules and manipulators added to it.  The objects are added by *)
(* reference, so a later call on the profile, rule or manipulator added    *)
(* last changes the document; the calls here act on the one added last.    *)
(* A script works on a layer or on a document, not on both.                *)

MaxDocCalls == 5    \* objects and list entries added to one document

RECURSIVE Sum(_)
Sum(ns) == IF Len(ns) = 0 THEN 0 ELSE Head(ns) + Sum(Tail(ns))

ManipSize(m) ==
    IF m.cls = "Manipulator"
    THEN 1 + Len(m.mandatory_modifiers) + Len(m.optional_modifiers) + Len(m.to_keys)
           + Len(m.to_if_alone) + Len(m.to_if_held_down) + Len(m.conditions)
    ELSE 1

RuleSize(r) == 1 + Sum([ i \in 1..Len(r.manipulators) |-> ManipSize(r.manipulators[i]) ])

ProfileSize(p) ==
    1 + Len(p.devices) + Cardinality(DOMAIN p.parameters)
      + Sum([ i \in 1..Len(p.rules) |-> RuleSize(p.rules[i]) ])

DocCalls(c) == Sum([ i \in 1..Len(c.profiles) |-> ProfileSize(c.profiles[i]) ])

NoCompiled == [kind |-> "none", v |-> EmptyDict, exc |-> "", n |-> 0]

HasConfig == config # NoConfig
HasProfile == HasConfig /\ Len(config.profiles) > 0
LastProfile == config.profiles[Len(config.profiles)]
HasRule == HasProfile /\ Len(LastProfile.rules) > 0
LastRule == LastProfile.rules[Len(LastProfile.rules)]
HasManipulator ==
    /\ HasRule /\ Len(LastRule.manipulators) > 0
    /\ LastRule.manipulators[Len(LastRule.manipulators)].cls = "Manipulator"
LastManipulator == LastRule.manipulators[Len(LastRule.manipulators)]

\* the document after a call that left the last profile as p, the last rule
\* as r, the last manipulator as m
WithProfile(p) == [config EXCEPT !.profiles[Len(config.profiles)] = p]
WithRule(r) == WithProfile([LastProfile EXCEPT !.rules[Len(LastProfile.rules)] = r])
WithManipulator(m) == WithRule([LastRule EXCEPT !.manipulators[Len(LastRule.manipulators)] = m])

\* a call on the document that returned: the document is now c
DocCall(c) ==
    /\ config' = c
    /\ compiled' = NoCompiled
    /\ UNCHANGED <<layer, out, registry, heap, ret, daemon, disk, saved, proc>>

Room == DocCalls(config) < MaxDocCalls

FromKeyArgs == << "a", "" >>
ModifiersArgs ==
    << [mandatory |-> << "left_shift" >>, optional |-> << >>],
       [mandatory |-> << >>, optional |-> << "any" >>] >>
ToArgs ==
    << [key |-> "b", modifiers |-> << >>],
       [key |-> "c", modifiers |-> << "left_command" >>] >>
RawArgs ==
    << [type |-> "basic", from |-> KeyCode("a"), to |-> << KeyCode("b") >>],
       [type |-> "basic"],
       [from |-> KeyCode("a")],
       [type |-> 1, from |-> KeyCode("a")],
       [type |-> None, from |-> KeyCode("a")] >>

NewConfig ==
    /\ ~HasConfig /\ ~Constructed
    /\ DocCall(KarabinerConfig)

\* config.add_profile(Profile("Default"))
AddProfile ==
    /\ HasConfig /\ Room
    /\ DocCall(add_profile(config, Profile("Default")))

\* profile.add_rule(Rule("rule"))
AddRule ==
    /\ HasProfile /\ Room
    /\ DocCall(WithProfile(add_rule(LastProfile, NewRule("rule"))))

AddDevice ==
    /\ HasProfile /\ Room
    /\ DocCall(WithProfile(add_device(LastProfile, 1452, 834, TRUE, EmptyDict)))

SetParameters ==
    /\ HasProfile /\ Room
    /\ DocCall(WithProfile(set_parameters(LastProfile,
           "basic.simultaneous_threshold_milliseconds" :> 50)))

SetVirtualKeyboard ==
    /\ HasProfile
    /\ DocCall(WithProfile(set_virtual_keyboard(LastProfile, 1)))

\* rule.add(Manipulator(from_key))
AddManipulator ==
    /\ HasRule /\ Room
    /\ \E a \in 1..Len(FromKeyArgs) :
           DocCall(WithRule(add(LastRule, Manipulator(FromKeyArgs[a]))))

\* rule.add_raw(manip_dict): the rule is as it was when the record is rejected
AddRaw ==
    /\ HasRule /\ Room
    /\ \E a \in 1..Len(RawArgs) :
           LET r == add_raw(LastRule, RawArgs[a])
           IN DocCall(IF r.ok THEN WithRule(r.v) ELSE config)

\* rule.add_dict(manip_dict), the deprecated name of add_raw
AddDict ==
    /\ HasRule /\ Room
    /\ \E a \in 1..Len(RawArgs) :
           LET r == add_dict(LastRule, RawArgs[a])
           IN DocCall(IF r.ok THEN WithRule(r.v) ELSE config)

Modifiers ==
    /\ HasManipulator /\ Room
    /\ \E a \in 1..Len(ModifiersArgs) :
           DocCall(WithManipulator(modifiers(LastManipulator, ModifiersArgs[a].mandatory,
                                             ModifiersArgs[a].optional)))

To ==
    /\ HasManipulator /\ Room
    /\ \E a \in 1..Len(ToArgs) :
           DocCall(WithManipulator(to(LastManipulator, ToArgs[a].key,
                                      ToArgs[a].modifiers, EmptyDict)))

ToRaw ==
    /\ HasManipulator /\ Room
    /\ DocCall(WithManipulator(to_raw(LastManipulator, [shell_command |-> "echo 1"])))

IfAlone ==
    /\ HasManipulator /\ Room
    /\ DocCall(WithManipulator(if_alone(LastManipulator, "escape", << >>, EmptyDict)))

IfHeld ==
    /\ HasManipulator /\ Room
    /\ DocCall(WithManipulator(if_held(LastManipulator, "left_control", << >>, EmptyDict)))

ManipWhenApp ==
    /\ HasManipulator /\ Room
    /\ DocCall(WithManipulator(manip_when_app(LastManipulator, Str("com.apple.Terminal"))))

ManipWhenVariable ==
    /\ HasManipulator /\ Room
    /\ DocCall(WithManipulator(manip_when_variable(LastManipulator, "hyper", 1)))

ManipUnlessApp ==
    /\ HasManipulator /\ Room
    /\ DocCall(WithManipulator(manip_unless_app(LastManipulator,
                                                List(<< "com.apple.Finder" >>))))

ManipUnlessVariable ==
    /\ HasManipulator /\ Room
    /\ DocCall(WithManipulator(manip_unless_variable(LastManipulator, "debug", 1)))

\* config.build(): it assigns to no field of the document or of anything in it
BuildConfig ==
    /\ HasConfig
    /\ LET r == KarabinerConfigBuild(config)
       IN compiled' = [ kind |-> IF r.ok THEN "tree" ELSE "raise",
                        v |-> IF r.ok THEN r.v ELSE EmptyDict,
                        exc |-> IF r.ok THEN "" ELSE r.exc,
                        n |-> IF compiled.kind = "none" THEN 1 ELSE 2 ]
    /\ UNCHANGED <<layer, out, registry, heap, ret, config, daemon, disk, saved, proc>>

Init ==
    /\ layer = NoLayer
    /\ out = NoOutcome
    /\ registry = BuiltinTemplates
    /\ heap = NoHeap
    /\ ret = NoTrees
    /\ config = NoConfig
    /\ compiled = NoCompiled
    /\ daemon = NoDaemon
    /\ disk = NoDisk
    /\ saved = NoSave
    /\ proc = NoProc

Next ==
    \/ New
    \/ Map
    \/ MapMacro
    \/ MapCombo
    \/ MapSequence
    \/ WhenApp
    \/ UnlessApp
    \/ UnlessVariable
    \/ SetSequenceTimeout
    \/ BuildRules
    \/ NewConfig
    \/ AddProfile
    \/ AddRule
    \/ AddDevice
    \/ SetParameters
    \/ SetVirtualKeyboard
    \/ AddManipulator
    \/ AddRaw
    \/ AddDict
    \/ Modifiers
    \/ To
    \/ ToRaw
    \/ IfAlone
    \/ IfHeld
    \/ ManipWhenApp
    \/ ManipWhenVariable
    \/ ManipUnlessApp
    \/ ManipUnlessVariable
    \/ BuildConfig

Spec == Init /\ [][Next]_vars

-----------------------------------------------------------------------------
(* What the claims read: the trees of the rules build_rules() returned *)

Built == out.kind = "rules"

\* Rule.build() of every rule of an outcome
TreesOf(o) == [ i \in 1..Len(o.rules) |-> RuleBuild(o.rules[i]).v ]
Trees == TreesOf(out)

\* the first manipulator of a rule tree
Manip(tree) == tree.manipulators[1]

Has(d, k) == k \in DOMAIN d

NumMappings == Len(layer.mappings)
NumCombos == Len(layer.combos)
NumSequences == Len(layer.sequences)

RECURSIVE SumKeys(_, _)
SumKeys(sequences, n) ==
    IF n = 0 THEN 0 ELSE Len(sequences[n].keys) + SumKeys(sequences, n - 1)

\* the number of step rules of the sequences before sequence s
StepOffset(s) == SumKeys(layer.sequences, s - 1)

\* the index in the rule list of mapping i, combo j, step i of sequence s
MappingAt(i) == 1 + i
ComboAt(j) == 1 + NumMappings + j
StepAt(s, i) == 1 + NumMappings + NumCombos + StepOffset(s) + i

\* what a rule tree is a rule of, read off the tree alone
RuleKind(tree) ==
    LET m == Manip(tree)
    IN IF Has(m, "to_delayed_action") THEN "step"
       ELSE IF ~Has(m, "conditions") THEN "activation"
       ELSE IF Has(m.from, "simultaneous") THEN "combo"
       ELSE "mapping"

FromKey(m) == IF Has(m.from, "key_code") THEN m.from.key_code ELSE "(none)"
FromKeys(m) ==
    IF Has(m.from, "simultaneous")
    THEN [ i \in 1..Len(m.from.simultaneous) |-> m.from.simultaneous[i].key_code ]
    ELSE << >>

\* the variable the first action of a manipulator sets to 1, if it does
SetsVariable(m) ==
    IF Len(m.to) > 0 /\ Has(m.to[1], "set_variable") /\ m.to[1].set_variable.value = 1
    THEN m.to[1].set_variable.name ELSE "(none)"

\* an entry of self.mappings that the mapping generator treats as a macro
IsMacro(entry) == entry.to.py = "dict" /\ Has(entry.to.v, "template")

\* C1: build_rules() returns the activation rule, then one rule per mapping
\* or macro in call order, then one rule per combo in call order, then the
\* step rules of each sequence in call order, steps in key order.
C1_RuleOrder ==
    Built =>
      /\ Len(Trees) >= 1
      /\ RuleKind(Trees[1]) = "activation"
      /\ SetsVariable(Manip(Trees[1])) = layer.name
      /\ \A i \in 1..NumMappings :
            /\ MappingAt(i) <= Len(Trees)
            /\ RuleKind(Trees[MappingAt(i)]) = "mapping"
            /\ FromKey(Manip(Trees[MappingAt(i)])) = layer.mappings[i].from
            /\ Has(Manip(Trees[MappingAt(i)]).to[1], "shell_command")
                  <=> (IsMacro(layer.mappings[i])
                       \/ (layer.mappings[i].to.py = "dict"
                           /\ Has(layer.mappings[i].to.v, "shell_command")))
      /\ \A j \in 1..NumCombos :
            /\ ComboAt(j) <= Len(Trees)
            /\ RuleKind(Trees[ComboAt(j)]) = "combo"
            /\ FromKeys(Manip(Trees[ComboAt(j)])) = layer.combos[j].keys
      /\ \A s \in 1..NumSequences : \A i \in 1..Len(layer.sequences[s].keys) :
            /\ StepAt(s, i) <= Len(Trees)
            /\ RuleKind(Trees[StepAt(s, i)]) = "step"
            /\ FromKey(Manip(Trees[StepAt(s, i)])) = layer.sequences[s].keys[i]
            /\ SetsVariable(Manip(Trees[StepAt(s, i)]))
                  = StepVars(layer, layer.sequences[s].keys)[i]

\* a sequence was added before a mapping could only have been: all three
\* kinds of entry are present and the rules were built
C1_Witness ==
    Built /\ NumMappings >= 1 /\ NumCombos >= 1 /\ NumSequences >= 1

\* C2: build_rules() returns 1 + m + c + sum(k_i) rules, each with exactly
\* one manipulator.
C2_RuleCount ==
    Built =>
      /\ Len(out.rules) = 1 + NumMappings + NumCombos + SumKeys(layer.sequences, NumSequences)
      /\ \A r \in 1..Len(out.rules) :
            /\ Len(out.rules[r].manipulators) = 1
            /\ Len(Trees[r].manipulators) = 1

C2_Witness ==
    Built /\ NumMappings = 1 /\ NumSequences = 2
          /\ Len(out.rules) = 2 + SumKeys(layer.sequences, 2)
          /\ SumKeys(layer.sequences, 2) = 5

\* C3: compiling is pure and repeatable.  build_rules() leaves the layer as
\* it was, and called again right after, it returns or raises the same, its
\* rules building to the same trees; config.build(), which builds every
\* Profile, Rule and Manipulator of the document, leaves the document as it
\* was, and called again right after, it returns the same tree or raises the
\* same error.
C3_Pure ==
    [][ /\ out'.op = "build_rules" =>
              /\ layer' = layer
              /\ out.op = "build_rules" =>
                    /\ out'.kind = out.kind
                    /\ out'.exc = out.exc
                    /\ TreesOf(out') = TreesOf(out)
        /\ compiled'.n > 0 =>
              /\ config' = config
              /\ compiled.n > 0 =>
                    /\ compiled'.kind = compiled.kind
                    /\ compiled'.exc = compiled.exc
                    /\ compiled'.v = compiled.v ]_vars

\* config.build() ran twice in a row on a document whose rule holds a
\* Manipulator with a target and a condition
C3_Witness ==
    /\ compiled.n = 2 /\ compiled.kind = "tree"
    /\ HasManipulator
    /\ Len(LastManipulator.to_keys) > 0
    /\ Len(LastManipulator.conditions) > 0

AnyModifiers == [optional |-> << "any" >>]

\* C5: with one trigger key t the activation rule has one manipulator, from
\* key_code t with optional modifiers [any], to [set L = 1], to_after_key_up
\* [set L = 0] and no conditions.
C5_SingleActivation ==
    (Built /\ Len(layer.trigger_keys) = 1) =>
      LET m == Manip(Trees[1])
      IN /\ Len(Trees[1].manipulators) = 1
         /\ m.from = [key_code |-> layer.trigger_keys[1], modifiers |-> AnyModifiers]
         /\ m.to = << SetVariable(layer.name, 1) >>
         /\ Has(m, "to_after_key_up")
         /\ m.to_after_key_up = << SetVariable(layer.name, 0) >>
         /\ ~Has(m, "conditions")

\* a single-key layer with a mapping and a scope condition was built
C5_Witness ==
    /\ Built /\ Len(layer.trigger_keys) = 1
    /\ NumMappings >= 1 /\ Len(layer.conditions) >= 1
    /\ Manip(Trees[1]).from.key_code = "right_command"

\* C6: with two or more trigger keys the activation manipulator's
\* from.simultaneous lists the trigger keys in order, to is [set L = 1],
\* to_after_key_up is [set L = 0], and it has neither to_if_alone nor
\* conditions.
C6_StackedActivation ==
    (Built /\ Len(layer.trigger_keys) >= 2) =>
      LET m == Manip(Trees[1])
      IN /\ Len(Trees[1].manipulators) = 1
         /\ Has(m.from, "simultaneous")
         /\ m.from.simultaneous
                = [ i \in 1..Len(layer.trigger_keys) |-> KeyCode(layer.trigger_keys[i]) ]
         /\ m.to = << SetVariable(layer.name, 1) >>
         /\ Has(m, "to_after_key_up")
         /\ m.to_after_key_up = << SetVariable(layer.name, 0) >>
         /\ ~Has(m, "to_if_alone")
         /\ ~Has(m, "conditions")

\* a stacked layer constructed with a to_if_alone key was built
C6_Witness ==
    /\ Built /\ Len(layer.trigger_keys) = 2
    /\ layer.to_if_alone = Str("escape")
    /\ Len(layer.conditions) >= 1

\* the rule indices of the mappings, combos and sequence steps
ScopedRules == 2..Len(Trees)

\* C7: every mapping, macro, combo and sequence-step manipulator has
\* conditions starting with variable_if(L, 1) followed by the scope
\* conditions in insertion order; the activation manipulator has none.
C7_ScopeConditions ==
    Built =>
      /\ ~Has(Manip(Trees[1]), "conditions")
      /\ \A r \in ScopedRules :
            LET m == Manip(Trees[r])
                n == Len(layer.conditions)
            IN /\ Has(m, "conditions")
               /\ Len(m.conditions) >= 1 + n
               /\ m.conditions[1] = VariableIf(layer.name, 1)
               /\ \A k \in 1..n : m.conditions[1 + k] = layer.conditions[k]

\* two scope conditions of different kinds, and a rule that carries them
C7_Witness ==
    /\ Built /\ Len(layer.conditions) = 2 /\ Len(Trees) >= 2
    /\ layer.conditions[1].type # layer.conditions[2].type
    /\ Len(Manip(Trees[2]).conditions) >= 3

\* the layer a script gets from one call of map with the entry's arguments
\* on a new layer of the same name
FreshLayerWith(entry) ==
    [ cls |-> "LayerStackBuilder", name |-> layer.name,
      trigger_keys |-> << "fn" >>, to_if_alone |-> None,
      mappings |-> << entry >>, combos |-> << >>, sequences |-> << >>,
      sequence_timeout_ms |-> 500, conditions |-> << >> ]

\* C8: the rule of a map(f, t) entry has one manipulator, from key_code f
\* with optional modifiers [any]; to is [{key_code: t}] for a str t, [t] for
\* an action dict t, the rendered template for a macro; and the description
\* is the one the same entry gets in any other layer of that name.
C8_MappingRule ==
    Built =>
      \A i \in 1..NumMappings :
        LET entry == layer.mappings[i]
            tree == Trees[MappingAt(i)]
            m == Manip(tree)
        IN /\ Len(tree.manipulators) = 1
           /\ m.from = [key_code |-> entry.from, modifiers |-> AnyModifiers]
           /\ entry.to.py = "str" => m.to = << [key_code |-> entry.to.v] >>
           /\ (entry.to.py = "dict" /\ ~IsMacro(entry)) => m.to = << entry.to.v >>
           /\ IsMacro(entry) =>
                 m.to = make_shell_command(registry, entry.to.v.template,
                                           entry.to.v.params).v
           /\ tree.description
                 = RuleBuild(build_rules(FreshLayerWith(entry), registry).rules[2]).v.description

\* a str mapping, then a typed_text macro, in a layer with a scope condition
C8_Witness ==
    /\ Built /\ NumMappings = 2 /\ Len(layer.conditions) = 1
    /\ Manip(Trees[2]).to = << [key_code |-> "left_arrow"] >>
    /\ Trees[2].description = "hyper: j -> left_arrow"
    /\ Manip(Trees[3]).to
          = << [shell_command |->
                  "osascript -e 'tell application \"System Events\" to keystroke \"Hi\"'"] >>
    /\ Trees[3].description = "hyper macro: t -> typed_text"

-----------------------------------------------------------------------------
(* Sharing: a script that keeps the lists it passes to map_combo, and the  *)
(* trees it gets back.  A list object the script holds lives in heap, and  *)
(* a value that is that very object (not a copy of it) is Ref(address):    *)
(* map_combo stores the list it is given (layer.py line 135),              *)
(* SimultaneousManipulator keeps it (line 35) and build() returns it as    *)
(* the tree's "to" (line 67); the same goes for the to_after_key_up option *)
(* (lines 38, 77-79).                                                      *)

MaxListLen == 2     \* appends to one list object
MaxTouches == 1     \* appends the script makes to a returned tree

Ref(a) == [ref |-> a]

\* the two lists of test_advanced_simultaneous, kept by the script
CallerLists ==
    [ actions |-> << [shell_command |-> "echo 1"] >>,
      after |-> << SetVariable("test", 0) >> ]

\* a combo manipulator tree of this script: its to and to_after_key_up are
\* the script's lists
IsComboTree(m) == Has(m.from, "simultaneous") /\ Has(m, "conditions")

\* what a reader of a returned manipulator tree sees, given the lists' contents
SeenManip(m, h) ==
    IF IsComboTree(m)
    THEN [m EXCEPT !.to = h[@.ref], !.to_after_key_up = h[@.ref]]
    ELSE m

SeenTrees(trees, h) ==
    [ r \in 1..Len(trees) |->
        [ trees[r] EXCEPT !.manipulators =
            [ i \in 1..Len(@) |-> SeenManip(@[i], h) ] ] ]

\* map_combo(["w", "i"], actions, to_after_key_up=after) with the script's lists
MapComboShared ==
    /\ Constructed /\ Calls(layer) < MaxCalls
    /\ Call(map_combo(layer, << "w", "i" >>, List(Ref("actions")),
                      [to_after_key_up |-> Ref("after")]))

\* trees = [rule.build() for rule in layer.build_rules()]
BuildTrees ==
    /\ Constructed
    /\ LET r == build_rules(layer, registry)
       IN /\ r.kind = "rules"
          /\ layer' = r.self
          /\ out' = [ kind |-> r.kind, op |-> "build_rules", exc |-> r.exc,
                      rules |-> r.rules, n |-> 1 ]
          /\ ret' = [kind |-> "trees", trees |-> TreesOf(out'), touched |-> 0]
    /\ UNCHANGED <<registry, heap, config, compiled, daemon, disk, saved, proc>>

\* the script appends an action to a list it passed to map_combo
CallerAppends ==
    /\ \E a \in DOMAIN heap :
          /\ Len(heap[a]) < MaxListLen
          /\ heap' = [heap EXCEPT ![a] = Append(@, KeyCode("x"))]
    /\ UNCHANGED <<layer, out, registry, ret, config, compiled, daemon, disk, saved, proc>>

\* the script appends an action to the "to" list of a tree it was returned:
\* trees[r]["manipulators"][0]["to"].append(...)
TreeAppends ==
    /\ ret.kind = "trees" /\ ret.touched < MaxTouches
    /\ \E r \in 1..Len(ret.trees) :
          LET m == Manip(ret.trees[r])
          IN IF IsComboTree(m)
             THEN /\ Len(heap[m.to.ref]) < MaxListLen + MaxTouches
                  /\ heap' = [heap EXCEPT ![m.to.ref] = Append(@, KeyCode("y"))]
                  /\ ret' = [ret EXCEPT !.touched = @ + 1]
             ELSE /\ heap' = heap
                  /\ ret' = [ret EXCEPT !.touched = @ + 1,
                                        !.trees[r].manipulators[1].to
                                            = Append(@, KeyCode("y"))]
    /\ UNCHANGED <<layer, out, registry, config, compiled, daemon, disk, saved, proc>>

InitShared ==
    /\ layer = LayerStackBuilder("hyper", Str("right_command"), None).v
    /\ out = NoOutcome
    /\ registry = BuiltinTemplates
    /\ heap = CallerLists
    /\ ret = NoTrees
    /\ config = NoConfig
    /\ compiled = NoCompiled
    /\ daemon = NoDaemon
    /\ disk = NoDisk
    /\ saved = NoSave
    /\ proc = NoProc

NextShared ==
    \/ Map
    \/ MapComboShared
    \/ WhenApp
    \/ BuildTrees
    \/ CallerAppends
    \/ TreeAppends

SpecShared == InitShared /\ [][NextShared]_vars

\* C4: a returned tree shares no mutable structure with the builder: (a) no
\* later call on the builder and no change the script makes to a list it
\* passed changes what a returned tree reads as, and (b) appending to a
\* returned tree does not change what the next build returns.
C4_NoSharing ==
    [][ ret.kind = "trees" =>
          /\ ret' = ret => SeenTrees(ret.trees, heap') = SeenTrees(ret.trees, heap)
          /\ (ret'.kind = "trees" /\ ret'.touched # ret.touched) =>
                SeenTrees(TreesOf(build_rules(layer', registry)), heap')
                    = SeenTrees(TreesOf(build_rules(layer, registry)), heap) ]_vars

-----------------------------------------------------------------------------
(* The generated rules at work.  The daemon is not part of the repository: *)
(* the specification describes it (variables are named integer slots, all  *)
(* 0 at first; a rule fires on its from key when all its conditions hold;  *)
(* which of several matching rules fires is not this system's choice; a    *)
(* fired step's to_delayed_action is canceled or invoked later).  The      *)
(* daemon here runs the manipulators of one layer, as build_rules() and    *)
(* Rule.build() produced them.  Simultaneous from blocks never fire and    *)
(* frontmost-application conditions are taken to hold.  One delayed action *)
(* waits at a time: that of the rule that fired last; it is canceled, or   *)
(* invoked, or still waiting when the next key goes down.                  *)

MaxSequences == 2   \* sequences of the layer the daemon runs

\* sequences for the daemon: three keys, and two whose keys join to one name
DaemonSequenceArgs ==
    << [keys |-> << "g", "h", "i" >>, to |-> "end"],
       [keys |-> << "a", "b_c" >>, to |-> "x"],
       [keys |-> << "a_b", "c" >>, to |-> "y"] >>

Running == daemon.kind = "on"

MapSequenceKeys ==
    /\ Constructed /\ ~Running /\ Len(layer.sequences) < MaxSequences
    /\ \E a \in 1..Len(DaemonSequenceArgs) :
           Call(map_sequence(layer, DaemonSequenceArgs[a].keys, DaemonSequenceArgs[a].to))

\* the names of the variables a list of actions sets, a manipulator mentions
VarsOfActions(actions) ==
    { actions[i].set_variable.name :
        i \in { j \in 1..Len(actions) : Has(actions[j], "set_variable") } }

VarsOfManip(m) ==
    VarsOfActions(m.to)
    \cup (IF Has(m, "to_after_key_up") THEN VarsOfActions(m.to_after_key_up) ELSE {})
    \cup (IF Has(m, "to_delayed_action")
          THEN VarsOfActions(m.to_delayed_action.to_if_canceled)
                  \cup VarsOfActions(m.to_delayed_action.to_if_invoked)
          ELSE {})
    \cup (IF Has(m, "conditions")
          THEN { m.conditions[i].name :
                   i \in { j \in 1..Len(m.conditions) : Has(m.conditions[j], "name") } }
          ELSE {})

\* the daemon started on the manipulators of a list of rule trees
Load(trees) ==
    LET rules == [ i \in 1..Len(trees) |-> Manip(trees[i]) ]
    IN [ kind |-> "on", rules |-> rules,
         variables |-> [ n \in UNION { VarsOfManip(rules[i]) : i \in 1..Len(rules) } |-> 0 ],
         held |-> {}, pending |-> 0, fired |-> {}, last |-> NoEvent ]

\* the script builds the layer's rules and the daemon loads their trees
Install ==
    /\ Constructed /\ ~Running
    /\ LET r == build_rules(layer, registry)
       IN /\ r.kind = "rules"
          /\ layer' = r.self
          /\ daemon' = Load(TreesOf(r))
    /\ UNCHANGED <<out, registry, heap, ret, config, compiled, disk, saved, proc>>

\* running a list of actions in order: variables set, key codes and shell
\* commands sent out
RECURSIVE RunActions(_, _)
RunActions(actions, st) ==
    IF Len(actions) = 0 THEN st
    ELSE LET a == Head(actions)
         IN RunActions(Tail(actions),
              IF Has(a, "set_variable")
              THEN [st EXCEPT !.variables[a.set_variable.name] = a.set_variable.value]
              ELSE IF Has(a, "key_code")
              THEN [st EXCEPT !.emitted = Append(@, a.key_code)]
              ELSE st)

Ran(actions) == RunActions(actions, [variables |-> daemon.variables, emitted |-> << >>])

CondHolds(c) ==
    IF c.type = "variable_if" THEN daemon.variables[c.name] = c.value
    ELSE IF c.type = "variable_unless" THEN daemon.variables[c.name] # c.value
    ELSE TRUE

Matches(m, k) ==
    /\ Has(m.from, "key_code") /\ m.from.key_code = k
    /\ Has(m, "conditions") => \A i \in 1..Len(m.conditions) : CondHolds(m.conditions[i])

DaemonKeys ==
    { daemon.rules[i].from.key_code :
        i \in { j \in 1..Len(daemon.rules) : Has(daemon.rules[j].from, "key_code") } }

\* rule i fires on a key press
Fire(i) ==
    LET m == daemon.rules[i]
        st == Ran(m.to)
    IN [ daemon EXCEPT !.variables = st.variables,
                       !.fired = @ \cup {i},
                       !.held = IF Has(m, "to_after_key_up") THEN @ \cup {i} ELSE @,
                       !.pending = IF Has(m, "to_delayed_action") THEN i ELSE @,
                       !.last = [ev |-> "press", rule |-> i, emitted |-> st.emitted] ]

\* a key goes down: one of the rules that match it fires, or the key passes
Press ==
    /\ Running
    /\ \E k \in DaemonKeys :
          /\ \A h \in daemon.held : daemon.rules[h].from.key_code # k
          /\ LET matching == { i \in 1..Len(daemon.rules) : Matches(daemon.rules[i], k) }
             IN IF matching = {}
                THEN daemon' = [daemon EXCEPT
                                  !.last = [ev |-> "press", rule |-> 0, emitted |-> << k >>]]
                ELSE \E i \in matching : daemon' = Fire(i)
    /\ UNCHANGED <<layer, out, registry, heap, ret, config, compiled, disk, saved, proc>>

\* a held key goes up: to_after_key_up runs, and to_if_alone when no other
\* key went down meanwhile
Release ==
    /\ Running
    /\ \E h \in daemon.held :
          LET m == daemon.rules[h]
              up == Ran(m.to_after_key_up)
              alone == daemon.last.ev = "press" /\ daemon.last.rule = h
              st == IF alone /\ Has(m, "to_if_alone")
                    THEN RunActions(m.to_if_alone, up) ELSE up
          IN daemon' = [ daemon EXCEPT
                           !.variables = st.variables,
                           !.held = @ \ {h},
                           !.last = [ev |-> "release", rule |-> h, emitted |-> st.emitted] ]
    /\ UNCHANGED <<layer, out, registry, heap, ret, config, compiled, disk, saved, proc>>

\* the delayed action of a fired rule is canceled: to_if_canceled runs
Cancel ==
    /\ Running
    /\ \E i \in {daemon.pending} \ {0} :
          LET st == Ran(daemon.rules[i].to_delayed_action.to_if_canceled)
          IN daemon' = [ daemon EXCEPT
                           !.variables = st.variables,
                           !.pending = 0,
                           !.last = [ev |-> "cancel", rule |-> i, emitted |-> st.emitted] ]
    /\ UNCHANGED <<layer, out, registry, heap, ret, config, compiled, disk, saved, proc>>

\* the delay of a fired rule runs out: to_if_invoked runs; no key went down,
\* so the last key event stays the last
Invoke ==
    /\ Running
    /\ \E i \in {daemon.pending} \ {0} :
          LET st == Ran(daemon.rules[i].to_delayed_action.to_if_invoked)
          IN daemon' = [ daemon EXCEPT
                           !.variables = st.variables,
                           !.pending = 0,
                           !.last.emitted = @ \o st.emitted ]
    /\ UNCHANGED <<layer, out, registry, heap, ret, config, compiled, disk, saved, proc>>

InitDaemon ==
    /\ layer = LayerStackBuilder("hyper", Str("right_command"), None).v
    /\ out = NoOutcome
    /\ registry = BuiltinTemplates
    /\ heap = NoHeap
    /\ ret = NoTrees
    /\ config = NoConfig
    /\ compiled = NoCompiled
    /\ daemon = NoDaemon
    /\ disk = NoDisk
    /\ saved = NoSave
    /\ proc = NoProc

NextDaemon ==
    \/ MapSequenceKeys
    \/ Install
    \/ Press
    \/ Release
    \/ Cancel
    \/ Invoke

SpecDaemon == InitDaemon /\ [][NextDaemon]_vars

\* the manipulator of step i of sequence s in the running daemon, the step
\* variables of sequence s, and every step variable of the layer
StepRule(s, i) == daemon.rules[StepAt(s, i)]
VarsOf(s) == StepVars(layer, layer.sequences[s].keys)
AllStepVars ==
    UNION { { VarsOf(s)[i] : i \in 1..Len(VarsOf(s)) } : s \in 1..NumSequences }

ConditionsOf(m) == IF Has(m, "conditions") THEN m.conditions ELSE << >>

\* step i of sequence s has fired: a rule on its key that sets its variable
HasFired(s, i) ==
    \E f \in daemon.fired :
        /\ FromKey(daemon.rules[f]) = layer.sequences[s].keys[i]
        /\ SetsVariable(daemon.rules[f]) = VarsOf(s)[i]

\* the step of this behaviour is rule r firing on a key press
Fires(r) == Running /\ daemon' # daemon /\ daemon' = Fire(r)

\* C9: for every sequence of the layer, each step after the first has
\* variable_if(previous step variable, 1) among its conditions and the first
\* step has no step-variable condition; a step after the first fires, and so
\* sets its variable, only when the layer variable and the previous step
\* variable are 1; and the last step fires, sending the final action, only
\* after every earlier step of that sequence has fired.
C9_ChainGuard ==
    [][ Running =>
          \A s \in 1..NumSequences :
             LET keys == layer.sequences[s].keys
                 n == Len(keys)
             IN /\ \A i \in 2..n :
                      \E c \in 1..Len(ConditionsOf(StepRule(s, i))) :
                          StepRule(s, i).conditions[c] = VariableIf(VarsOf(s)[i - 1], 1)
                /\ \A c \in 1..Len(ConditionsOf(StepRule(s, 1))) :
                      StepRule(s, 1).conditions[c].name \notin AllStepVars
                /\ \A i \in 2..n :
                      Fires(StepAt(s, i)) =>
                          /\ daemon.variables[layer.name] = 1
                          /\ daemon.variables[VarsOf(s)[i - 1]] = 1
                /\ Fires(StepAt(s, n)) => \A i \in 1..(n - 1) : HasFired(s, i) ]_vars

\* C10: every step but the last has to = [set its variable to 1]; the last
\* has to = [set its variable to 1, the final key, every step variable of the
\* sequence set to 0 in step order]; and when the last step has just fired,
\* every step variable of the sequence is 0 and the first step's rule matches
\* its key again.
C10_ChainReset ==
    Running =>
       \A s \in 1..NumSequences :
          LET keys == layer.sequences[s].keys
              n == Len(keys)
              sv == VarsOf(s)
          IN /\ \A i \in 1..(n - 1) : StepRule(s, i).to = << SetVariable(sv[i], 1) >>
             /\ StepRule(s, n).to =
                   << SetVariable(sv[n], 1), KeyCode(layer.sequences[s].to) >>
                      \o [ j \in 1..n |-> SetVariable(sv[j], 0) ]
             /\ (daemon.last.ev = "press" /\ daemon.last.rule = StepAt(s, n)) =>
                   /\ \A j \in 1..n : daemon.variables[sv[j]] = 0
                   /\ Matches(StepRule(s, 1), keys[1])

\* the last step of the three-key sequence g, h, i has just fired, after its
\* first two steps, and sent the final key
C10_Witness ==
    /\ Running
    /\ \E s \in 1..NumSequences :
          /\ layer.sequences[s].keys = << "g", "h", "i" >>
          /\ daemon.last.ev = "press" /\ daemon.last.rule = StepAt(s, 3)
          /\ daemon.last.emitted = << "end" >>
          /\ HasFired(s, 1) /\ HasFired(s, 2)

-----------------------------------------------------------------------------
(* Sequence steps: cancellation and timeout *)

\* C11: every sequence-step manipulator has a to_delayed_action with
\* to_if_canceled = [set stepVar[0] = 0] for the first step and
\* [set stepVar[i] = 0, set stepVar[i-1] = 0] for a later step i, and with an
\* empty to_if_invoked.
C11_CancelActions ==
    Built =>
      \A s \in 1..NumSequences :
        \A i \in 1..Len(layer.sequences[s].keys) :
          /\ StepAt(s, i) <= Len(Trees)
          /\ LET m == Manip(Trees[StepAt(s, i)])
                 sv == StepVars(layer, layer.sequences[s].keys)
             IN /\ Has(m, "to_delayed_action")
                /\ DOMAIN m.to_delayed_action = {"to_if_canceled", "to_if_invoked"}
                /\ m.to_delayed_action.to_if_canceled
                      = IF i = 1 THEN << SetVariable(sv[1], 0) >>
                        ELSE << SetVariable(sv[i], 0), SetVariable(sv[i - 1], 0) >>
                /\ m.to_delayed_action.to_if_invoked = << >>

\* a three-key sequence was built; its third step cancels two variables
C11_Witness ==
    /\ Built
    /\ \E s \in 1..NumSequences :
          /\ Len(layer.sequences[s].keys) = 3
          /\ Len(Manip(Trees[StepAt(s, 3)]).to_delayed_action.to_if_canceled) = 2
          /\ Len(Manip(Trees[StepAt(s, 1)]).to_delayed_action.to_if_canceled) = 1

DelayKey == "basic.to_delayed_action_delay_milliseconds"

\* C12: the layer's timeout is 500 when the layer is made and changes only
\* to a value > 0 that set_sequence_timeout was given, which then is the
\* timeout; a value <= 0 is refused.  When build_rules() returns, every step
\* of every sequence has parameters = {delay: T} for the timeout T the layer
\* has at that moment, T > 0, and no other manipulator has parameters.
C12_StepTimeout ==
    [][ /\ (~Constructed /\ Constructed') => layer'.sequence_timeout_ms = 500
        /\ (Constructed /\ Constructed'
              /\ layer'.sequence_timeout_ms # layer.sequence_timeout_ms) =>
              \E a \in 1..Len(TimeoutArgs) :
                  /\ TimeoutArgs[a] > 0
                  /\ layer' = [layer EXCEPT !.sequence_timeout_ms = TimeoutArgs[a]]
        /\ Constructed =>
              \A a \in 1..Len(TimeoutArgs) :
                  LET r == set_sequence_timeout(layer, TimeoutArgs[a])
                  IN IF TimeoutArgs[a] > 0
                     THEN r.ok /\ r.v = [layer EXCEPT !.sequence_timeout_ms = TimeoutArgs[a]]
                     ELSE ~r.ok
        /\ out'.kind = "rules" =>
              LET T == layer'.sequence_timeout_ms
                  trees == TreesOf(out')
                  firstStep == 2 + Len(layer'.mappings) + Len(layer'.combos)
              IN /\ T > 0
                 /\ \A r \in 1..Len(trees) :
                       IF r >= firstStep
                       THEN /\ Has(Manip(trees[r]), "parameters")
                            /\ Manip(trees[r]).parameters = (DelayKey :> T)
                       ELSE ~Has(Manip(trees[r]), "parameters") ]_vars

\* a layer with a mapping and a sequence, built after its timeout was set to
\* 300: the first step carries 300
C12_Witness ==
    /\ Built /\ NumMappings >= 1 /\ NumSequences >= 1
    /\ layer.sequence_timeout_ms = 300
    /\ Manip(Trees[StepAt(1, 1)]).parameters[DelayKey] = 300

-----------------------------------------------------------------------------
(* Combos and their simultaneity options *)

MaxCombos == 1

\* a keyword argument of map_combo: left out, or given with a value
NotGiven == [given |-> FALSE]
Given(v) == [given |-> TRUE, v |-> v]
Kwarg(key, arg) == IF arg.given THEN key :> arg.v ELSE EmptyDict

DetectArgs == << NotGiven, Given(FALSE), Given(TRUE) >>
OrderArgs == << NotGiven, Given("insensitive"), Given("strict") >>
WhenArgs == << NotGiven, Given("any"), Given("all") >>
AfterKeyUpArgs == << NotGiven, Given(<< SetVariable("test", 0) >>) >>

\* layer.map_combo(["w", "i"], "escape", **options)
MapComboOptions ==
    /\ Constructed /\ Len(layer.combos) < MaxCombos
    /\ \E d \in 1..Len(DetectArgs), kd \in 1..Len(OrderArgs), ku \in 1..Len(OrderArgs),
          w \in 1..Len(WhenArgs), a \in 1..Len(AfterKeyUpArgs) :
          Call(map_combo(layer, << "w", "i" >>, Str("escape"),
                         Kwarg("detect_key_down_uninterruptedly", DetectArgs[d])
                           @@ Kwarg("key_down_order", OrderArgs[kd])
                           @@ Kwarg("key_up_order", OrderArgs[ku])
                           @@ Kwarg("key_up_when", WhenArgs[w])
                           @@ Kwarg("to_after_key_up", AfterKeyUpArgs[a])))

InitCombo ==
    /\ layer = LayerStackBuilder("hyper", Str("right_command"), None).v
    /\ out = NoOutcome
    /\ registry = BuiltinTemplates
    /\ heap = NoHeap
    /\ ret = NoTrees
    /\ config = NoConfig
    /\ compiled = NoCompiled
    /\ daemon = NoDaemon
    /\ disk = NoDisk
    /\ saved = NoSave
    /\ proc = NoProc

NextCombo ==
    \/ MapComboOptions
    \/ BuildRules

SpecCombo == InitCombo /\ [][NextCombo]_vars

SimKeys ==
    {"detect_key_down_uninterruptedly", "key_down_order", "key_up_order", "key_up_when"}

\* the options of a combo that were passed with a value other than the default
NonDefault(options) ==
    { k \in SimKeys \cap DOMAIN options :
        IF k = "detect_key_down_uninterruptedly" THEN options[k] = TRUE
        ELSE IF k = "key_up_when" THEN options[k] # "any"
        ELSE options[k] # "insensitive" }

\* C13: in the built combo manipulator, simultaneous_options holds exactly
\* the options that were passed with a non-default value, each with the value
\* passed, and the key is absent from the from block when there is none (a
\* combo built without options included); to_after_key_up is the list passed
\* to map_combo and the key is absent when none was passed.
C13_ComboOptions ==
    Built =>
      \A c \in 1..NumCombos :
        /\ ComboAt(c) <= Len(Trees)
        /\ LET m == Manip(Trees[ComboAt(c)])
               options == layer.combos[c].options
               kept == NonDefault(options)
           IN /\ IF kept = {}
                 THEN ~Has(m.from, "simultaneous_options")
                 ELSE /\ Has(m.from, "simultaneous_options")
                      /\ DOMAIN m.from.simultaneous_options = kept
                      /\ \A k \in kept : m.from.simultaneous_options[k] = options[k]
              /\ IF Has(options, "to_after_key_up")
                 THEN /\ Has(m, "to_after_key_up")
                      /\ m.to_after_key_up = options.to_after_key_up
                 ELSE ~Has(m, "to_after_key_up")

\* a built combo that was given a default order, a strict order and a list
\* for to_after_key_up: only the strict order is in simultaneous_options
C13_Witness ==
    /\ Built /\ NumCombos = 1
    /\ LET m == Manip(Trees[ComboAt(1)])
           options == layer.combos[1].options
       IN /\ Has(options, "key_down_order") /\ options.key_down_order = "strict"
          /\ Has(options, "key_up_order") /\ options.key_up_order = "insensitive"
          /\ Has(options, "to_after_key_up")
          /\ Has(m.from, "simultaneous_options")
          /\ DOMAIN m.from.simultaneous_options = {"key_down_order"}
          /\ Has(m, "to_after_key_up")

-----------------------------------------------------------------------------
(* Fail-fast validation of the layer builder *)

\* C14: the layer builder refuses malformed input at the call that brings it:
\* the constructor an empty name, an empty trigger-key list or an empty
\* trigger key; map, map_macro, map_combo and map_sequence an empty from,
\* combo, sequence or target key; map_combo and map_sequence fewer than two
\* keys; set_sequence_timeout ms <= 0.  A refused call leaves the layer as it
\* was, so no layer ever holds an empty key.
C14_RejectAtCall ==
    [][ /\ ~Constructed =>
              \A a \in 1..Len(LayerArgs) :
                  LET keys == IF LayerArgs[a].trigger_keys.py = "list"
                              THEN LayerArgs[a].trigger_keys.v
                              ELSE << LayerArgs[a].trigger_keys.v >>
                  IN (LayerArgs[a].name = "" \/ Len(keys) = 0 \/ AnyEmpty(keys)) =>
                        ~LayerStackBuilder(LayerArgs[a].name, LayerArgs[a].trigger_keys,
                                           LayerArgs[a].to_if_alone).ok
        /\ Constructed =>
              /\ \A a \in 1..Len(MapArgs) :
                    (\/ MapArgs[a].from = ""
                     \/ (MapArgs[a].to.py = "str" /\ MapArgs[a].to.v = "")) =>
                        ~map(layer, MapArgs[a].from, MapArgs[a].to).ok
              /\ \A a \in 1..Len(MacroArgs) :
                    MacroArgs[a].from = "" =>
                        ~map_macro(layer, MacroArgs[a].from, MacroArgs[a].template,
                                   MacroArgs[a].params).ok
              /\ \A a \in 1..Len(ComboArgs) :
                    (\/ Len(ComboArgs[a].keys) < 2
                     \/ AnyEmpty(ComboArgs[a].keys)
                     \/ (ComboArgs[a].to.py = "str" /\ ComboArgs[a].to.v = "")) =>
                        ~map_combo(layer, ComboArgs[a].keys, ComboArgs[a].to,
                                   ComboArgs[a].options).ok
              /\ \A a \in 1..Len(SequenceArgs) :
                    (\/ Len(SequenceArgs[a].keys) < 2
                     \/ AnyEmpty(SequenceArgs[a].keys)
                     \/ SequenceArgs[a].to = "") =>
                        ~map_sequence(layer, SequenceArgs[a].keys, SequenceArgs[a].to).ok
              /\ \A a \in 1..Len(TimeoutArgs) :
                    TimeoutArgs[a] <= 0 => ~set_sequence_timeout(layer, TimeoutArgs[a]).ok
        /\ out'.kind = "rejected" => layer' = layer
        /\ Constructed' =>
              /\ layer'.name # "" /\ Len(layer'.trigger_keys) > 0
              /\ ~AnyEmpty(layer'.trigger_keys)
              /\ \A i \in 1..Len(layer'.mappings) : layer'.mappings[i].from # ""
              /\ \A i \in 1..Len(layer'.combos) : ~AnyEmpty(layer'.combos[i].keys)
              /\ \A i \in 1..Len(layer'.sequences) :
                    ~AnyEmpty(layer'.sequences[i].keys) /\ layer'.sequences[i].to # ""
              /\ layer'.sequence_timeout_ms > 0 ]_vars

-----------------------------------------------------------------------------
(* Macros that cannot be rendered *)

\* the placeholders of a template
Placeholders(template) == { template[i].s : i \in { j \in 1..Len(template) : template[j].ph } }

\* a macro whose template is not registered or lacks a parameter
BadMacro(reg, template_name, params) ==
    \/ template_name \notin DOMAIN reg
    \/ ~(Placeholders(reg[template_name]) \subseteq DOMAIN params)

HasBadMacro(self, reg) ==
    \E i \in 1..Len(self.mappings) :
        /\ self.mappings[i].to.py = "dict"
        /\ Has(self.mappings[i].to.v, "template")
        /\ BadMacro(reg, self.mappings[i].to.v.template, self.mappings[i].to.v.params)

TemplateErrors ==
    {"ValueError: Unknown template", "ValueError: Missing template parameter"}

\* C15: make_shell_command fails for a template name that is not registered
\* and for a placeholder without a parameter; map_macro takes such a mapping
\* without error; build_rules() on a layer that holds one raises that error,
\* returns no rules whatever else the layer holds and wherever the macro
\* sits, and leaves the layer as it was.
C15_BadMacroFailsBuild ==
    [][ /\ \A a \in 1..Len(MacroArgs) :
              BadMacro(registry, MacroArgs[a].template, MacroArgs[a].params) =>
                  LET r == make_shell_command(registry, MacroArgs[a].template,
                                              MacroArgs[a].params)
                  IN ~r.ok /\ r.exc \in TemplateErrors
        /\ Constructed =>
              \A a \in 1..Len(MacroArgs) :
                  MacroArgs[a].template # "" =>
                      LET r == map_macro(layer, MacroArgs[a].from, MacroArgs[a].template,
                                         MacroArgs[a].params)
                      IN r.ok /\ Len(r.v.mappings) = Len(layer.mappings) + 1
        /\ (Constructed /\ HasBadMacro(layer, registry) /\ out'.op = "build_rules") =>
              /\ out'.kind = "raise"
              /\ out'.exc \in TemplateErrors
              /\ out'.rules = << >>
              /\ layer' = layer ]_vars

\* a build that raised on a layer whose second mapping is the bad macro,
\* after a valid mapping and before a combo or a sequence
C15_Witness ==
    /\ Constructed /\ out.op = "build_rules" /\ out.kind = "raise"
    /\ NumMappings = 2 /\ NumCombos + NumSequences = 1
    /\ layer.mappings[1].to.py = "str"
    /\ HasBadMacro(layer, registry)

-----------------------------------------------------------------------------
(* The template registry *)

MaxMacros == 2

RegisterArgs ==
    << [name |-> "my_custom", template |-> << Lit("echo \""), Ph("message"), Lit("\"") >>],
       [name |-> "my_custom", template |-> << Lit("say "), Ph("message") >>],
       [name |-> "open", template |-> << Lit("xdg-open "), Ph("path") >>],
       [name |-> "", template |-> << Lit("echo 1") >>],
       [name |-> "x", template |-> << >>] >>

RegistryMacroArgs ==
    << [from |-> "m", template |-> "my_custom", params |-> [message |-> "hello"]],
       [from |-> "o", template |-> "open", params |-> [path |-> "/tmp"]] >>

\* register_template(name, template)
RegisterTemplate ==
    /\ \E a \in 1..Len(RegisterArgs) :
          LET r == register_template(registry, RegisterArgs[a].name, RegisterArgs[a].template)
          IN IF r.ok
             THEN registry' = r.v /\ out' = NoOutcome
             ELSE registry' = registry /\ out' = Rejected
    /\ UNCHANGED <<layer, heap, ret, config, compiled, daemon, disk, saved, proc>>

\* layer.map_macro(from_key, template_type, **params); the script notes the
\* registry as it is at this call
MapMacroNoting ==
    /\ Constructed /\ Len(layer.mappings) < MaxMacros
    /\ \E a \in 1..Len(RegistryMacroArgs) :
          LET r == map_macro(layer, RegistryMacroArgs[a].from, RegistryMacroArgs[a].template,
                             RegistryMacroArgs[a].params)
          IN /\ r.ok
             /\ layer' = r.v
             /\ out' = NoOutcome
             /\ heap' = Append(heap, registry)
    /\ UNCHANGED <<registry, ret, config, compiled, daemon, disk, saved, proc>>

InitTemplates ==
    /\ layer = LayerStackBuilder("hyper", Str("right_command"), None).v
    /\ out = NoOutcome
    /\ registry = BuiltinTemplates
    /\ heap = << >>
    /\ ret = NoTrees
    /\ config = NoConfig
    /\ compiled = NoCompiled
    /\ daemon = NoDaemon
    /\ disk = NoDisk
    /\ saved = NoSave
    /\ proc = NoProc

NextTemplates ==
    \/ RegisterTemplate
    \/ MapMacroNoting
    \/ BuildRules

SpecTemplates == InitTemplates /\ [][NextTemplates]_vars

\* what make_shell_command returns for a template whose parameters are given
Rendered(template, kwargs) == << [shell_command |-> Format(template, kwargs).v] >>

\* C16: register_template with an empty name or an empty template fails and
\* the registry stays as it was; an accepted registration puts its template
\* under its name, replacing the one that was there (built-in names too), and
\* touches no other name, so make_shell_command(name, ...) renders the last
\* template registered under name; build_rules() renders every macro with the
\* registry of the moment of the build, whatever it was at map_macro.
C16_Registry ==
    [][ /\ \A a \in 1..Len(RegisterArgs) :
              LET name == RegisterArgs[a].name
                  template == RegisterArgs[a].template
                  r == register_template(registry, name, template)
              IN IF name = "" \/ Len(template) = 0
                 THEN ~r.ok
                 ELSE /\ r.ok
                      /\ DOMAIN r.v = DOMAIN registry \cup {name}
                      /\ r.v[name] = template
                      /\ \A n \in DOMAIN registry \ {name} : r.v[n] = registry[n]
                      /\ \A m \in 1..Len(RegistryMacroArgs) :
                            RegistryMacroArgs[m].template = name =>
                               LET c == make_shell_command(r.v, name, RegistryMacroArgs[m].params)
                               IN c.ok /\ c.v = Rendered(template, RegistryMacroArgs[m].params)
        /\ registry' # registry =>
              \E a \in 1..Len(RegisterArgs) :
                  /\ RegisterArgs[a].name # "" /\ Len(RegisterArgs[a].template) > 0
                  /\ registry' = register_template(registry, RegisterArgs[a].name,
                                                   RegisterArgs[a].template).v
        /\ out'.kind = "rejected" => registry' = registry
        /\ out'.op = "build_rules" =>
              /\ registry' = registry
              /\ IF HasBadMacro(layer', registry')
                 THEN out'.kind = "raise"
                 ELSE /\ out'.kind = "rules"
                      /\ \A i \in 1..Len(layer'.mappings) :
                            LET macro == layer'.mappings[i].to.v
                            IN Manip(TreesOf(out')[1 + i]).to
                                  = Rendered(registry'[macro.template], macro.params) ]_vars

\* a built layer whose macro names a template that was registered anew after
\* map_macro: the rule holds the rendering of the template registered last
C16_Witness ==
    /\ Built /\ NumMappings >= 1 /\ Len(heap) >= 1
    /\ LET macro == layer.mappings[1].to.v
       IN /\ macro.template = "my_custom"
          /\ Has(heap[1], "my_custom")
          /\ heap[1].my_custom = RegisterArgs[1].template
          /\ registry.my_custom = RegisterArgs[2].template
          /\ Manip(Trees[2]).to = << [shell_command |-> "say hello"] >>

-----------------------------------------------------------------------------
(* Manipulator: keys and accumulated lists *)

\* every Manipulator of the document
DocManipulators ==
    IF ~HasConfig THEN {}
    ELSE { config.profiles[p].rules[r].manipulators[m] :
             <<p, r, m>> \in
               { t \in (1..Len(config.profiles)) \X (1..MaxDocCalls) \X (1..MaxDocCalls) :
                   /\ t[2] <= Len(config.profiles[t[1]].rules)
                   /\ t[3] <= Len(config.profiles[t[1]].rules[t[2]].manipulators)
                   /\ config.profiles[t[1]].rules[t[2]].manipulators[t[3]].cls
                         = "Manipulator" } }

EmptyKeyIn(targets) ==
    \E i \in 1..Len(targets) : Has(targets[i], "key_code") /\ targets[i].key_code = ""

\* C17: an empty key is refused at the call that brings it and not at
\* build(): Manipulator("") fails at construction and to(""), if_alone("") and
\* if_held("") fail and leave the lists as they were, so no Manipulator ever
\* holds an empty from key or an empty target key and build() never raises
\* for one.
C17_RejectEmptyKey ==
    /\ \A m \in DocManipulators :
          /\ m.from_key # ""
          /\ ~EmptyKeyIn(m.to_keys)
          /\ ~EmptyKeyIn(m.to_if_alone)
          /\ ~EmptyKeyIn(m.to_if_held_down)
          /\ ~EmptyKeyIn(to(m, "", << >>, EmptyDict).to_keys)
          /\ ~EmptyKeyIn(if_alone(m, "", << >>, EmptyDict).to_if_alone)
          /\ ~EmptyKeyIn(if_held(m, "", << >>, EmptyDict).to_if_held_down)
    /\ compiled.exc # "ValueError: from_key cannot be empty"


\* the key k of the dict d holds the list when the list is not empty and is
\* absent when it is
Emits(d, k, list) ==
    IF Len(list) > 0 THEN Has(d, k) /\ d[k] = list ELSE ~Has(d, k)

IsPrefix(old, new) == Len(old) <= Len(new) /\ SubSeq(new, 1, Len(old)) = old

ListFields ==
    {"mandatory_modifiers", "optional_modifiers", "to_keys", "to_if_alone",
     "to_if_held_down", "conditions"}

\* the tree v is what the lists of the Manipulators of the document c ask for
EmitsAccumulated(c, v) ==
    \A p \in 1..Len(c.profiles) :
      \A r \in 1..Len(c.profiles[p].rules) :
        \A i \in 1..Len(c.profiles[p].rules[r].manipulators) :
          LET m == c.profiles[p].rules[r].manipulators[i]
              b == v.profiles[p].complex_modifications.rules[r].manipulators[i]
          IN m.cls = "Manipulator" =>
               /\ Emits(b, "to", m.to_keys)
               /\ Emits(b, "to_if_alone", m.to_if_alone)
               /\ Emits(b, "to_if_held_down", m.to_if_held_down)
               /\ Emits(b, "conditions", m.conditions)
               /\ IF Len(m.mandatory_modifiers) = 0 /\ Len(m.optional_modifiers) = 0
                  THEN ~Has(b.from, "modifiers")
                  ELSE /\ Has(b.from, "modifiers")
                       /\ Emits(b.from.modifiers, "mandatory", m.mandatory_modifiers)
                       /\ Emits(b.from.modifiers, "optional", m.optional_modifiers)

\* each call on the Manipulator m adds its entry at the end of its list and
\* leaves the other lists as they are
CallsAppend(m) ==
    /\ \A a \in 1..Len(ModifiersArgs) :
          modifiers(m, ModifiersArgs[a].mandatory, ModifiersArgs[a].optional)
             = [m EXCEPT !.mandatory_modifiers = @ \o ModifiersArgs[a].mandatory,
                         !.optional_modifiers = @ \o ModifiersArgs[a].optional]
    /\ \A a \in 1..Len(ToArgs) :
          LET target == IF Len(ToArgs[a].modifiers) = 0 THEN [key_code |-> ToArgs[a].key]
                        ELSE [key_code |-> ToArgs[a].key, modifiers |-> ToArgs[a].modifiers]
          IN to(m, ToArgs[a].key, ToArgs[a].modifiers, EmptyDict)
                = [m EXCEPT !.to_keys = @ \o << target >>]
    /\ manip_when_app(m, Str("com.apple.Terminal"))
          = [m EXCEPT !.conditions = @ \o << [type |-> "frontmost_application_if",
                                               bundle_identifiers |-> << "com.apple.Terminal" >>] >>]
    /\ manip_when_variable(m, "hyper", 1)
          = [m EXCEPT !.conditions = @ \o << [type |-> "variable_if", name |-> "hyper",
                                               value |-> 1] >>]
    /\ manip_unless_app(m, List(<< "com.apple.Finder" >>))
          = [m EXCEPT !.conditions = @ \o << [type |-> "frontmost_application_unless",
                                               bundle_identifiers |-> << "com.apple.Finder" >>] >>]
    /\ manip_unless_variable(m, "debug", 1)
          = [m EXCEPT !.conditions = @ \o << [type |-> "variable_unless", name |-> "debug",
                                               value |-> 1] >>]

\* C18: Manipulator.build() emits to, to_if_alone, to_if_held_down,
\* conditions and from.modifiers.mandatory/optional exactly when the list is
\* not empty, never as an empty array, each with the entries of the list; a
\* new Manipulator has empty lists and every call on it leaves what its lists
\* held in place and adds at the end, so a list holds the entries of all the
\* earlier calls in call order.
C18_Accumulate ==
    [][ /\ compiled'.kind = "tree" => EmitsAccumulated(config', compiled'.v)
        /\ \A m \in DocManipulators : CallsAppend(m)
        /\ (HasRule /\ HasRule' /\ Len(LastRule'.manipulators) > Len(LastRule.manipulators)
              /\ LastManipulator'.cls = "Manipulator") =>
              \A f \in ListFields : LastManipulator'[f] = << >>
        /\ (HasManipulator /\ HasManipulator'
              /\ Len(config'.profiles) = Len(config.profiles)
              /\ Len(LastProfile'.rules) = Len(LastProfile.rules)
              /\ Len(LastRule'.manipulators) = Len(LastRule.manipulators)) =>
              \A f \in ListFields : IsPrefix(LastManipulator[f], LastManipulator'[f]) ]_vars

\* a built Manipulator on which to() was called twice and that has no
\* condition: to holds both targets in call order, conditions is absent
C18_Witness ==
    /\ compiled.kind = "tree" /\ HasManipulator
    /\ LastManipulator.to_keys = << [key_code |-> "b"],
                                    [key_code |-> "c", modifiers |-> << "left_command" >>] >>
    /\ LastManipulator.conditions = << >>
    /\ LET b == compiled.v.profiles[Len(config.profiles)].complex_modifications
                   .rules[Len(LastProfile.rules)].manipulators[Len(LastRule.manipulators)]
       IN Len(b.to) = 2 /\ ~Has(b, "conditions") /\ ~Has(b.from, "modifiers")

-----------------------------------------------------------------------------
(* Raw manipulator records *)

\* a record RawManipulator must refuse
Malformed(d) == ~Has(d, "type") \/ ~IsStr(d.type) \/ ~Has(d, "from")

\* the trees of the raw manipulators of the document c, in the tree v, are
\* the records they were made of
RawTreesEqual(c, v) ==
    \A p \in 1..Len(c.profiles) :
      \A r \in 1..Len(c.profiles[p].rules) :
        \A i \in 1..Len(c.profiles[p].rules[r].manipulators) :
          LET m == c.profiles[p].rules[r].manipulators[i]
          IN m.cls = "RawManipulator" =>
               /\ ~Malformed(m.raw)
               /\ v.profiles[p].complex_modifications.rules[r].manipulators[i] = m.raw

\* C19: RawManipulator, and add_raw and add_dict through it, refuses a record
\* whose type is missing or not a string or that has no from entry, and the
\* rule keeps its manipulators; an accepted record d makes the rule one
\* manipulator longer, at the end, and that manipulator builds to a tree
\* equal to d.
C19_RawRecords ==
    [][ /\ \A a \in 1..Len(RawArgs) :
              LET d == RawArgs[a]
              IN /\ RawManipulator(d).ok = ~Malformed(d)
                 /\ HasRule =>
                      LET r == add_raw(LastRule, d)
                      IN /\ add_dict(LastRule, d) = r
                         /\ r.ok = ~Malformed(d)
                         /\ r.ok =>
                              /\ Len(r.v.manipulators) = Len(LastRule.manipulators) + 1
                              /\ SubSeq(r.v.manipulators, 1, Len(LastRule.manipulators))
                                    = LastRule.manipulators
                              /\ Build(r.v.manipulators[Len(r.v.manipulators)]) = Return(d)
        /\ HasConfig' =>
              \A p \in 1..Len(config'.profiles) :
                \A r \in 1..Len(config'.profiles[p].rules) :
                  \A i \in 1..Len(config'.profiles[p].rules[r].manipulators) :
                    LET m == config'.profiles[p].rules[r].manipulators[i]
                    IN m.cls = "RawManipulator" => ~Malformed(m.raw)
        /\ compiled'.kind = "tree" => RawTreesEqual(config', compiled'.v) ]_vars

\* a built document whose last rule ends with the raw manipulator of the
\* record {type: basic, from: a, to: [b]}: its tree is that record
C19_Witness ==
    /\ compiled.kind = "tree" /\ HasRule
    /\ Len(LastRule.manipulators) > 0
    /\ LastRule.manipulators[Len(LastRule.manipulators)].cls = "RawManipulator"
    /\ compiled.v.profiles[Len(config.profiles)].complex_modifications
          .rules[Len(LastProfile.rules)].manipulators[Len(LastRule.manipulators)]
          = [type |-> "basic", from |-> [key_code |-> "a"], to |-> << [key_code |-> "b"] >>]

-----------------------------------------------------------------------------
(* deploy.py: saving a document *)

MAX_BACKUPS == 10
MaxClock == 1       \* seconds that pass
MaxReloads == 1     \* reloads asked for

\* a file with its content and its modification time
File(content, mtime) == [exists |-> TRUE, content |-> content, mtime |-> mtime]

\* json.dumps(config_dict, indent=2): the text of a tree; two trees have the
\* same text exactly when they are equal
Dumps(tree) == [json |-> tree]

\* validate_json(json_str)
validate_json(json_str) == Has(json_str, "json")

\* validate_config(config_dict): the list of errors
validate_config(config_dict) ==
    (IF ~Has(config_dict, "global") THEN << "Missing 'global' key" >> ELSE << >>)
    \o (IF ~Has(config_dict, "profiles") THEN << "Missing 'profiles' key" >>
        ELSE IF Len(config_dict.profiles) = 0 THEN << "At least one profile is required" >>
        ELSE << >>)

\* Mutant: the sort is oldest first, so the keep oldest files are kept.
cleanup_backups_KeepsOldest(backups, keep) ==
    LET names == DOMAIN backups
        n == IF Cardinality(names) < keep THEN Cardinality(names) ELSE keep
    IN { [ k \in K |-> backups[k] ] :
           K \in { S \in SUBSET names :
                     /\ Cardinality(S) = n
                     /\ \A k \in S : \A j \in names \ S :
                           backups[k].mtime <= backups[j].mtime } }

\* cleanup_backups(backup_dir, keep): the directories it may leave.  The
\* files are sorted by modification time, newest first, and those after the
\* first keep are deleted; files of equal time come in the order of the
\* directory listing, which is any order.  sure: the files that are among
\* the first keep in every such order; tie: those that are in some orders
\* only.
cleanup_backups(backups, keep) ==
    LET names == DOMAIN backups
        n == IF Cardinality(names) < keep THEN Cardinality(names) ELSE keep
        sure == { k \in names :
                    Cardinality({ j \in names : backups[j].mtime >= backups[k].mtime }) <= n }
        tie == { k \in names \ sure :
                    Cardinality({ j \in names : backups[j].mtime > backups[k].mtime }) < n }
    IN { [ k \in sure \cup T |-> backups[k] ] :
           T \in { S \in SUBSET tie : Cardinality(S) = n - Cardinality(sure) } }

\* backup_dir / f"karabiner_backup_{timestamp}.json"
BackupPath(timestamp) == [py |-> "Path", v |-> timestamp]

\* backup_config(path): the disks it may leave, each with the path returned.
\* The backup is named after the second of the clock, copy2 keeps the
\* modification time of the target, and a backup of the same second is
\* overwritten.
backup_config(d) ==
    IF ~d.target.exists
    THEN { [disk |-> d, backup_path |-> None] }
    ELSE LET copied == (d.clock :> d.target) @@ d.backups
         IN { [disk |-> [d EXCEPT !.backups = kept], backup_path |-> BackupPath(d.clock)] :
                kept \in cleanup_backups(copied, MAX_BACKUPS) }

\* SaveResult(path, backup_path, reload_status, diff_changed, dry_run)
SaveResult(backup_path, reload_status, diff_changed, dry_run) ==
    [ kind |-> "result", exc |-> "", backup_path |-> backup_path,
      reload_status |-> reload_status, diff_changed |-> diff_changed,
      dry_run |-> dry_run ]

SaveRaise(exc) ==
    [ kind |-> "raise", exc |-> exc, backup_path |-> None, reload_status |-> None,
      diff_changed |-> FALSE, dry_run |-> FALSE ]

\* Mutant: a dry run writes the generated text to the target.
DryRun_Writes(d, json_str, diff_changed) ==
    { [ disk |-> [d EXCEPT !.target = File(json_str, d.clock)],
        saved |-> SaveResult(None, None, diff_changed, TRUE) ] }

\* the dry_run branch of save_config: the diff or the new text is printed and
\* the result returned, the disk is left alone
DryRun(d, json_str, diff_changed) ==
    { [disk |-> d, saved |-> SaveResult(None, None, diff_changed, TRUE)] }

\* save_config(config, path, apply, backup, dry_run) on the disk d: the
\* outcomes it may have, each the disk it leaves and what it returns or
\* raises.  write_fails: _atomic_write raises OSError; reload_ok: what
\* reload_karabiner() returns.
save_config(self, d, apply, backup, dry_run, write_fails, reload_ok) ==
    LET config_dict == KarabinerConfigBuild(self)
    IN IF ~config_dict.ok
       THEN { [disk |-> d, saved |-> SaveRaise(config_dict.exc)] }
       ELSE IF Len(validate_config(config_dict.v)) > 0
       THEN { [disk |-> d, saved |-> SaveRaise("ValueError: Invalid configuration")] }
       ELSE IF ~validate_json(Dumps(config_dict.v))
       THEN { [disk |-> d, saved |-> SaveRaise("ValueError: Generated JSON is invalid")] }
       ELSE
         LET json_str == Dumps(config_dict.v)
             has_existing == d.target.exists
             diff_changed == IF has_existing THEN d.target.content # json_str ELSE TRUE
         IN IF dry_run
            THEN DryRun(d, json_str, diff_changed)
            ELSE
              { IF write_fails
                THEN \* the backup, when one was made, is copied back over the target
                     [ disk |-> b.disk,
                       saved |-> SaveRaise("RuntimeError: Failed to write config atomically") ]
                ELSE [ disk |-> [ b.disk EXCEPT
                                    !.target = File(json_str, d.clock),
                                    !.reloads = IF apply THEN @ + 1 ELSE @ ],
                       saved |-> SaveResult(b.backup_path,
                                            IF apply THEN [py |-> "bool", v |-> reload_ok]
                                            ELSE None,
                                            diff_changed, FALSE) ] :
                b \in IF backup /\ has_existing THEN backup_config(d)
                      ELSE { [disk |-> d, backup_path |-> None] } }

-----------------------------------------------------------------------------
(* A script that saves documents *)

\* a Rule with one Manipulator from from_key to b
MappingRuleOf(from_key) ==
    add(NewRule("rule"), to(Manipulator(from_key), "b", << >>, EmptyDict))

\* the documents the script saves: without a profile, with an empty profile,
\* with a profile that maps a to b, and with one whose from key is empty
Documents ==
    << KarabinerConfig,
       add_profile(KarabinerConfig, Profile("Default")),
       add_profile(KarabinerConfig, add_rule(Profile("Default"), MappingRuleOf("a"))),
       add_profile(KarabinerConfig, add_rule(Profile("Default"), MappingRuleOf(""))) >>

\* the script makes a document
MakeDocument ==
    /\ \E i \in 1..Len(Documents) : config' = Documents[i]
    /\ compiled' = NoCompiled
    /\ UNCHANGED <<layer, out, registry, heap, ret, daemon, disk, saved, proc>>

\* a second passes
Tick ==
    /\ disk.clock < MaxClock
    /\ disk' = [disk EXCEPT !.clock = @ + 1]
    /\ UNCHANGED <<layer, out, registry, heap, ret, config, compiled, daemon, saved, proc>>

\* save_config(config, path, apply=..., backup=..., dry_run=...)
SaveConfig ==
    /\ HasConfig
    /\ \E apply \in BOOLEAN, backup \in BOOLEAN, dry_run \in BOOLEAN,
          write_fails \in BOOLEAN, reload_ok \in BOOLEAN :
          /\ apply => disk.reloads < MaxReloads
          /\ \E o \in save_config(config, disk, apply, backup, dry_run, write_fails, reload_ok) :
                /\ disk' = o.disk
                /\ saved' = o.saved
    /\ UNCHANGED <<layer, out, registry, heap, ret, config, compiled, daemon, proc>>

InitDeploy ==
    /\ layer = NoLayer
    /\ out = NoOutcome
    /\ registry = BuiltinTemplates
    /\ heap = NoHeap
    /\ ret = NoTrees
    /\ config = NoConfig
    /\ compiled = NoCompiled
    /\ daemon = NoDaemon
    /\ disk \in { NoDisk, [NoDisk EXCEPT !.target = File(Dumps([old |-> TRUE]), 0)] }
    /\ saved = NoSave
    /\ proc = NoProc

NextDeploy ==
    \/ MakeDocument
    \/ SaveConfig

SpecDeploy == InitDeploy /\ [][NextDeploy]_vars

\* C20: KarabinerConfig.build() always succeeds, and its tree has a global
\* key and a profiles list that is empty when no profile was added; a
\* document without a profile is refused by save_config alone, which raises
\* before it touches the disk: the target is neither created nor changed, no
\* backup is made and no reload is asked for.
C20_BuildAlwaysSucceeds ==
    [][ /\ HasConfig' =>
              LET built == KarabinerConfigBuild(config')
              IN /\ built.ok
                 /\ Has(built.v, "global") /\ Has(built.v, "profiles")
                 /\ Len(built.v.profiles) = Len(config'.profiles)
        /\ (HasConfig /\ Len(config.profiles) = 0) =>
              \A apply \in BOOLEAN, backup \in BOOLEAN, dry_run \in BOOLEAN,
                 write_fails \in BOOLEAN, reload_ok \in BOOLEAN :
                 \A o \in save_config(config, disk, apply, backup, dry_run,
                                      write_fails, reload_ok) :
                     /\ o.saved.kind = "raise"
                     /\ o.saved.exc = "ValueError: Invalid configuration"
                     /\ o.disk = disk
        /\ (HasConfig /\ Len(config.profiles) = 0 /\ saved' # saved) =>
              /\ saved'.kind = "raise"
              /\ disk' = disk ]_vars

-----------------------------------------------------------------------------
(* Dry runs *)

SaveFlags == BOOLEAN \X BOOLEAN \X BOOLEAN \X BOOLEAN

-----------------------------------------------------------------------------
(* Backups and restores over a backup directory that is in use *)

\* what backup_config or restore_config returned
Returned(kind, v) == [kind |-> kind, v |-> v]

\* restore_config(backup_path, target_path): the disk it leaves and what it
\* returns.  copy2 gives the target the content and the modification time of
\* the backup; copy_fails: copy2 raises OSError.
restore_config(d, timestamp, copy_fails) ==
    IF timestamp \notin DOMAIN d.backups
    THEN [disk |-> d, v |-> FALSE]
    ELSE IF copy_fails
    THEN [disk |-> d, v |-> FALSE]
    ELSE [disk |-> [d EXCEPT !.target = d.backups[timestamp]], v |-> TRUE]

\* the directory after n saves with backup=True, one a second, the last one
\* a second before the clock starts: each backup is named after its second
\* and keeps the time of the target it copied
OldBackups(n) == [ t \in (0 - n)..(-1) |-> File(Dumps([old |-> t]), t - 1) ]

\* backup_config(path)
BackupConfig ==
    /\ \E o \in backup_config(disk) :
          /\ disk' = o.disk
          /\ saved' = Returned("backup", o.backup_path)
    /\ UNCHANGED <<layer, out, registry, heap, ret, config, compiled, daemon, proc>>

\* the backups a restore is asked for: the one of the earliest name, the one
\* of the latest name, and one that is not there
RestoreArgs(backups) ==
    { t \in DOMAIN backups : \/ \A u \in DOMAIN backups : t <= u
                             \/ \A u \in DOMAIN backups : t >= u }
    \cup { 0 - MAX_BACKUPS - 1 }

\* restore_config(backup_path, target_path)
RestoreConfig ==
    /\ \E timestamp \in RestoreArgs(disk.backups), copy_fails \in BOOLEAN :
          LET o == restore_config(disk, timestamp, copy_fails)
          IN /\ disk' = o.disk
             /\ saved' = Returned("restore", [py |-> "bool", v |-> o.v])
    /\ UNCHANGED <<layer, out, registry, heap, ret, config, compiled, daemon, proc>>

\* save_config(config, path, backup=...) of a document that is accepted
SaveDocument ==
    /\ \E backup \in BOOLEAN, write_fails \in BOOLEAN :
          \E o \in save_config(config, disk, FALSE, backup, FALSE, write_fails, TRUE) :
             /\ disk' = o.disk
             /\ saved' = o.saved
    /\ UNCHANGED <<layer, out, registry, heap, ret, config, compiled, daemon, proc>>

InitBackups ==
    /\ layer = NoLayer
    /\ out = NoOutcome
    /\ registry = BuiltinTemplates
    /\ heap = NoHeap
    /\ ret = NoTrees
    /\ config = Documents[3]
    /\ compiled = NoCompiled
    /\ daemon = NoDaemon
    /\ \E n \in {0, MAX_BACKUPS - 1, MAX_BACKUPS} :
          disk \in { [NoDisk EXCEPT !.backups = OldBackups(n)],
                     [NoDisk EXCEPT !.backups = OldBackups(n),
                                    !.target = File(Dumps([old |-> 0]), -1)] }
    /\ saved = NoSave
    /\ proc = NoProc

NextBackups ==
    \/ BackupConfig
    \/ RestoreConfig
    \/ SaveDocument
    \/ Tick

SpecBackups == InitBackups /\ [][NextBackups]_vars

\* the backup b that a call returned is there and holds the content the
\* target d.target had before the call; without a target nothing is returned
BackupHolds(d, o) ==
    IF d.target.exists
    THEN /\ o.backup_path # None
         /\ o.backup_path.v \in DOMAIN o.disk.backups
         /\ o.disk.backups[o.backup_path.v].content = d.target.content
    ELSE /\ o.backup_path = None
         /\ o.disk.backups = d.backups

\* C22: after backup_config, and after save_config with backup=True and no
\* dry run, over an existing target, the returned backup path names a file
\* that exists and holds the target's content from before the call, whatever
\* saves, backups and restores came before; without a target no backup is
\* made and the returned path is None.
C22_BackupExists ==
    [][ /\ \A o \in backup_config(disk) : BackupHolds(disk, o)
        /\ \A write_fails \in BOOLEAN :
              \A o \in save_config(config, disk, FALSE, TRUE, FALSE, write_fails, TRUE) :
                 o.saved.kind = "result" =>
                    BackupHolds(disk, [disk |-> o.disk, backup_path |-> o.saved.backup_path])
        /\ (saved' # saved /\ saved'.kind = "backup") =>
              BackupHolds(disk, [disk |-> disk', backup_path |-> saved'.v]) ]_vars

-----------------------------------------------------------------------------
(* The backups that are kept *)

\* the values of keep that cleanup_backups is tried with
KeepArgs == {0, 1, MAX_BACKUPS - 1, MAX_BACKUPS}

\* kept holds the keep most recently modified files of dir, as they were:
\* no kept file is older than a deleted one
KeptMostRecent(dir, kept, keep) ==
    /\ DOMAIN kept \subseteq DOMAIN dir
    /\ \A k \in DOMAIN kept : kept[k] = dir[k]
    /\ Cardinality(DOMAIN kept)
          = IF Cardinality(DOMAIN dir) < keep THEN Cardinality(DOMAIN dir) ELSE keep
    /\ \A k \in DOMAIN kept : \A j \in DOMAIN dir \ DOMAIN kept :
          dir[k].mtime >= dir[j].mtime

\* C23: cleanup_backups(dir, keep=k) deletes exactly the backups that are not
\* among the k most recently modified and leaves those k as they were; so
\* after every backup_config call, and after every save_config with backup
\* enabled, the directory holds at most MAX_BACKUPS backups.
C23_Cleanup ==
    [][ /\ \A keep \in KeepArgs :
              \A dir \in { disk.backups, (disk.clock :> File(Dumps([old |-> 0]), -1)) @@ disk.backups } :
                 \A kept \in cleanup_backups(dir, keep) : KeptMostRecent(dir, kept, keep)
        /\ \A o \in backup_config(disk) :
              Cardinality(DOMAIN o.disk.backups) <= MAX_BACKUPS
        /\ Cardinality(DOMAIN disk'.backups) <= MAX_BACKUPS
        /\ (saved' # saved /\ saved'.kind = "backup" /\ disk.target.exists) =>
              \E kept \in cleanup_backups((disk.clock :> disk.target) @@ disk.backups, MAX_BACKUPS) :
                 /\ disk'.backups = kept
                 /\ KeptMostRecent((disk.clock :> disk.target) @@ disk.backups, kept,
                                   MAX_BACKUPS) ]_vars

\* a backup_config over a full directory: the new backup is there and the
\* oldest of the MAX_BACKUPS backups is gone
C23_Witness ==
    /\ saved.kind = "backup"
    /\ Cardinality(DOMAIN disk.backups) = MAX_BACKUPS
    /\ DOMAIN disk.backups \cap {0, 1} # {}
    /\ (0 - MAX_BACKUPS) \notin DOMAIN disk.backups

-----------------------------------------------------------------------------
(* cli_commands.py and cli.py: run_watch *)

MaxEvents == 2      \* change events the watcher delivers

\* what the script file is when it is loaded: missing, raising when executed,
\* defining no KarabinerConfig, or defining one of two documents, the first
\* of which save_config refuses
Scripts ==
    { [kind |-> k, config |-> NoConfig] : k \in {"missing", "raises", "no config"} }
    \cup { [kind |-> "config", config |-> Documents[i]] : i \in {1, 3} }

CliErrors ==
    { "CliError: Script not found", "CliError: Error executing script",
      "CliError: No KarabinerConfig found" }

\* load_config_from_script(script_path) of cli_commands, which raises
\* CliError, and load_config_from_script(script_path, exit_on_error=False) of
\* cli, which prints the error and returns None
load_config_from_script(module, script) ==
    LET error == IF script.kind = "missing" THEN "Script not found"
                 ELSE IF script.kind = "raises" THEN "Error executing script"
                 ELSE "No KarabinerConfig found"
    IN IF script.kind = "config" THEN [ok |-> TRUE, v |-> script.config, printed |-> ""]
       ELSE IF module = "cli_commands"
       THEN [ok |-> FALSE, exc |-> "CliError: " \o error, printed |-> ""]
       ELSE [ok |-> TRUE, v |-> None, printed |-> "Error: " \o error]

\* what one execute_once() did: the disk it left, what save_config returned
\* or raised when it was called, what was printed, and the exception that
\* left execute_once ("" when it returned)
Once(d, called, s, report, exc) ==
    [disk |-> d, called |-> called, saved |-> s, report |-> report, exc |-> exc]

\* the except clause of execute_once: except CliError in cli_commands, except
\* Exception in cli
Caught(module, exc) == module = "cli" \/ exc \in CliErrors

\* run_watch.execute_once of cli_commands and of cli; cli calls save_config
\* with its default backup=True
execute_once(module, script, d, apply, dry_run, backup, write_fails, reload_ok) ==
    LET loaded == load_config_from_script(module, script)
    IN IF ~loaded.ok
       THEN IF Caught(module, loaded.exc)
            THEN { Once(d, FALSE, NoSave, loaded.exc, "") }
            ELSE { Once(d, FALSE, NoSave, "", loaded.exc) }
       ELSE IF script.kind # "config"
       THEN \* if config is None: return
            { Once(d, FALSE, NoSave, loaded.printed, "") }
       ELSE { IF o.saved.kind = "raise"
              THEN IF Caught(module, o.saved.exc)
                   THEN Once(o.disk, TRUE, o.saved, o.saved.exc, "")
                   ELSE Once(o.disk, TRUE, o.saved, "", o.saved.exc)
              ELSE Once(o.disk, TRUE, o.saved,
                        IF dry_run THEN "Dry-run completed" ELSE "Applied", "") :
              o \in save_config(loaded.v, d, apply,
                                IF module = "cli" THEN TRUE ELSE backup,
                                dry_run, write_fails, reload_ok) }

\* the run_watch of a module, before it is called: the script file is there
NotStarted(script) ==
    [ kind |-> "run_watch", pc |-> "not started", module |-> "", script |-> script,
      apply |-> FALSE, dry_run |-> FALSE, backup |-> FALSE,
      delivered |-> 0, cycles |-> 0,
      last |-> [script |-> script, report |-> "", exc |-> ""] ]

\* Mutant: run_watch starts to watch without a first cycle.
run_watch_NoFirstCycle(p, module, apply, dry_run, backup) ==
    [ p EXCEPT !.module = module, !.apply = apply, !.dry_run = dry_run,
               !.backup = backup, !.pc = "watching" ]

\* run_watch(script_path, apply, dry_run, debounce_ms, backup) is called:
\* its first statement after the import is execute_once()
run_watch(p, module, apply, dry_run, backup) ==
    [ p EXCEPT !.module = module, !.apply = apply, !.dry_run = dry_run,
               !.backup = backup, !.pc = "execute_once" ]

\* the command starts
RunWatch ==
    /\ proc.pc = "not started"
    /\ \E module \in {"cli", "cli_commands"}, apply \in BOOLEAN, dry_run \in BOOLEAN,
          backup \in BOOLEAN :
          /\ module = "cli" => backup
          /\ proc' = run_watch(proc, module, apply, dry_run, backup)
    /\ UNCHANGED <<layer, out, registry, heap, ret, config, compiled, daemon, disk, saved>>

\* execute_once(): the script is loaded as it is now and saved; an exception
\* that leaves execute_once leaves run_watch too, otherwise run_watch goes on
\* to wait for the watcher
ExecuteOnce ==
    /\ proc.pc = "execute_once"
    /\ \E write_fails \in BOOLEAN, reload_ok \in BOOLEAN :
          \E o \in execute_once(proc.module, proc.script, disk, proc.apply, proc.dry_run,
                                proc.backup, write_fails, reload_ok) :
             /\ proc' = [ proc EXCEPT !.cycles = @ + 1,
                                      !.pc = IF o.exc = "" THEN "watching" ELSE "raised",
                                      !.last = [script |-> proc.script, report |-> o.report,
                                                exc |-> o.exc] ]
             /\ disk' = o.disk
             /\ saved' = IF o.called THEN o.saved ELSE saved
    /\ UNCHANGED <<layer, out, registry, heap, ret, config, compiled, daemon>>

\* for _changes in watch(...): the watcher delivers a change and the loop
\* body, execute_once(), is entered
Change ==
    /\ proc.pc = "watching"
    /\ proc.delivered < MaxEvents
    /\ proc' = [proc EXCEPT !.delivered = @ + 1, !.pc = "execute_once"]
    /\ UNCHANGED <<layer, out, registry, heap, ret, config, compiled, daemon, disk, saved>>

\* the watcher's stream of changes ends: the for loop is left and run_watch
\* returns
StreamEnds ==
    /\ proc.pc = "watching"
    /\ proc' = [proc EXCEPT !.pc = "returned"]
    /\ UNCHANGED <<layer, out, registry, heap, ret, config, compiled, daemon, disk, saved>>

\* the user edits the script file
EditScript ==
    /\ proc.pc \in {"not started", "execute_once", "watching"}
    /\ \E script \in Scripts \ {proc.script} : proc' = [proc EXCEPT !.script = script]
    /\ UNCHANGED <<layer, out, registry, heap, ret, config, compiled, daemon, disk, saved>>

InitWatch ==
    /\ layer = NoLayer
    /\ out = NoOutcome
    /\ registry = BuiltinTemplates
    /\ heap = NoHeap
    /\ ret = NoTrees
    /\ config = NoConfig
    /\ compiled = NoCompiled
    /\ daemon = NoDaemon
    /\ disk = NoDisk
    /\ saved = NoSave
    /\ proc \in { NotStarted(script) : script \in Scripts }

NextWatch ==
    \/ RunWatch
    \/ ExecuteOnce
    \/ Change
    \/ StreamEnds
    \/ EditScript

SpecWatch == InitWatch /\ [][NextWatch]_vars

\* the things execute_once may print for the script and the flags of p
Reports(p, d) ==
    { o.report : o \in UNION { execute_once(p.module, p.script, d, p.apply, p.dry_run,
                                             p.backup, f[1], f[2]) :
                               f \in BOOLEAN \X BOOLEAN } }

C30_FailedCycleGoesOn ==
    [][ proc'.cycles # proc.cycles =>
           /\ proc'.pc = "watching"
           /\ proc'.last.exc = ""
           /\ proc'.last.report # "" ]_vars

-----------------------------------------------------------------------------
(* service.py: the launchd service *)

MaxServiceCalls == 3    \* service commands that are run

\* what subprocess.run(["launchctl", ...]) may return as returncode
ReturnCodes == {0, 1}

\* the service before any command: the plist is there or not, nothing was
\* done and nothing printed
Service(plist) ==
    [ kind |-> "service", plist |-> plist, done |-> << >>, printed |-> "", n |-> 0 ]

\* _launchctl(args): the command, as it is noted in the list of things done
_launchctl(args) == "launchctl " \o args

\* Mutant: start is issued whatever load returned.
install_watch_service_StartsAnyway(p, load_returncode, start_returncode) ==
    [ p EXCEPT !.plist = TRUE,
               !.done = @ \o << "write plist", _launchctl("load"), _launchctl("start") >>,
               !.printed = IF load_returncode # 0 THEN "Failed to load service."
                           ELSE IF start_returncode # 0 THEN "Failed to start service."
                           ELSE "Service installed and started.",
               !.n = @ + 1 ]

\* install_watch_service(script_path, source), with what launchctl load and
\* launchctl start return
install_watch_service(p, load_returncode, start_returncode) ==
    LET written == [ p EXCEPT !.plist = TRUE, !.done = Append(@, "write plist"),
                              !.n = @ + 1 ]
        loaded == [ written EXCEPT !.done = Append(@, _launchctl("load")) ]
        started == [ loaded EXCEPT !.done = Append(@, _launchctl("start")) ]
    IN IF load_returncode # 0
       THEN [ loaded EXCEPT !.printed = "Failed to load service." ]
       ELSE IF start_returncode # 0
       THEN [ started EXCEPT !.printed = "Failed to start service." ]
       ELSE [ started EXCEPT !.printed = "Service installed and started." ]

\* uninstall_watch_service(): the return codes of stop and unload are not
\* looked at
uninstall_watch_service(p) ==
    IF p.plist
    THEN [ p EXCEPT !.plist = FALSE,
                    !.done = @ \o << _launchctl("stop"), _launchctl("unload"), "unlink plist" >>,
                    !.printed = "Service uninstalled.",
                    !.n = @ + 1 ]
    ELSE [ p EXCEPT !.printed = "Service is not installed.", !.n = @ + 1 ]

InstallWatchService ==
    /\ proc.n < MaxServiceCalls
    /\ \E load_returncode \in ReturnCodes, start_returncode \in ReturnCodes :
          proc' = install_watch_service(proc, load_returncode, start_returncode)
    /\ UNCHANGED <<layer, out, registry, heap, ret, config, compiled, daemon, disk, saved>>

UninstallWatchService ==
    /\ proc.n < MaxServiceCalls
    /\ proc' = uninstall_watch_service(proc)
    /\ UNCHANGED <<layer, out, registry, heap, ret, config, compiled, daemon, disk, saved>>

\* someone else removes the plist file
RemovePlist ==
    /\ proc.plist
    /\ proc' = [proc EXCEPT !.plist = FALSE]
    /\ UNCHANGED <<layer, out, registry, heap, ret, config, compiled, daemon, disk, saved>>

InitService ==
    /\ layer = NoLayer
    /\ out = NoOutcome
    /\ registry = BuiltinTemplates
    /\ heap = NoHeap
    /\ ret = NoTrees
    /\ config = NoConfig
    /\ compiled = NoCompiled
    /\ daemon = NoDaemon
    /\ disk = NoDisk
    /\ saved = NoSave
    /\ proc \in { Service(plist) : plist \in BOOLEAN }

NextService ==
    \/ InstallWatchService
    \/ UninstallWatchService
    \/ RemovePlist

SpecService == InitService /\ [][NextService]_vars

\* what q did after p
DoneSince(p, q) == SubSeq(q.done, Len(p.done) + 1, Len(q.done))

\* C25: install_watch_service writes the plist first, then issues launchctl
\* load, and issues launchctl start only if load returned 0; it reports
\* success only if both returned 0 and the failing step otherwise.
\* uninstall_watch_service issues stop, then unload, then removes the plist
\* when the plist exists, and issues no launchctl command and removes nothing
\* when it does not.
C25_ServiceSteps ==
    [][ /\ \A load_returncode \in ReturnCodes, start_returncode \in ReturnCodes :
              LET q == install_watch_service(proc, load_returncode, start_returncode)
                  did == DoneSince(proc, q)
              IN /\ IsPrefix(proc.done, q.done)
                 /\ q.plist
                 /\ Len(did) >= 2 /\ did[1] = "write plist" /\ did[2] = "launchctl load"
                 /\ IF load_returncode = 0
                    THEN did = << "write plist", "launchctl load", "launchctl start" >>
                    ELSE did = << "write plist", "launchctl load" >>
                 /\ q.printed = "Service installed and started."
                       <=> (load_returncode = 0 /\ start_returncode = 0)
                 /\ load_returncode # 0 => q.printed = "Failed to load service."
                 /\ (load_returncode = 0 /\ start_returncode # 0) =>
                       q.printed = "Failed to start service."
        /\ LET q == uninstall_watch_service(proc)
               did == DoneSince(proc, q)
           IN /\ IsPrefix(proc.done, q.done)
              /\ ~q.plist
              /\ IF proc.plist
                 THEN did = << "launchctl stop", "launchctl unload", "unlink plist" >>
                 ELSE did = << >>
        /\ proc'.n # proc.n =>
              LET did == DoneSince(proc, proc')
              IN /\ IsPrefix(proc.done, proc'.done)
                 /\ \/ /\ did \in { << "write plist", "launchctl load", "launchctl start" >>,
                                    << "write plist", "launchctl load" >> }
                       /\ proc'.plist
                       /\ proc'.printed = "Service installed and started." => Len(did) = 3
                       /\ proc'.printed = "Failed to load service." <=> Len(did) = 2
                    \/ /\ did = << "launchctl stop", "launchctl unload", "unlink plist" >>
                       /\ proc.plist /\ ~proc'.plist
                    \/ /\ did = << >>
                       /\ ~proc.plist /\ ~proc'.plist
                       /\ proc'.printed = "Service is not installed." ]_vars

\* an install whose load returned 0, so that start was issued, an uninstall
\* after it, and then an uninstall that found no plist
C25_Witness ==
    /\ proc.kind = "service"
    /\ proc.printed = "Service is not installed."
    /\ proc.done = << "write plist", "launchctl load", "launchctl start",
                      "launchctl stop", "launchctl unload", "unlink plist" >>
    /\ proc.n = 3

-----------------------------------------------------------------------------
(* The daemon on one sequence, of two, three or four keys *)

ChainSequenceArgs ==
    << << "g", "h" >>, << "g", "h", "i" >>, << "g", "h", "i", "j" >> >>

InitChain ==
    /\ \E a \in 1..Len(ChainSequenceArgs) :
          layer = map_sequence(LayerStackBuilder("hyper", Str("right_command"), None).v,
                               ChainSequenceArgs[a], "end").v
    /\ out = NoOutcome
    /\ registry = BuiltinTemplates
    /\ heap = NoHeap
    /\ ret = NoTrees
    /\ config = NoConfig
    /\ compiled = NoCompiled
    /\ daemon = NoDaemon
    /\ disk = NoDisk
    /\ saved = NoSave
    /\ proc = NoProc

NextChain ==
    \/ Install
    \/ Press
    \/ Release
    \/ Cancel
    \/ Invoke

SpecChain == InitChain /\ [][NextChain]_vars

\* C26: once the cancel branch of a step of a sequence has run, no step
\* variable of that sequence is left at 1, so that no step after the first
\* can fire before the first key is pressed again.
C26_CancelClearsChain ==
    [][ (Running /\ daemon' # daemon /\ daemon'.last.ev = "cancel") =>
           \A s \in 1..NumSequences :
              (\E i \in 1..Len(VarsOf(s)) : daemon'.last.rule = StepAt(s, i)) =>
                 \A j \in 1..Len(VarsOf(s)) : daemon'.variables[VarsOf(s)[j]] = 0 ]_vars

-----------------------------------------------------------------------------
(* The tap-alone key of a single-trigger layer *)

\* C27: the activation manipulator of a layer with one trigger key always
\* has to_if_alone with exactly one key_code action: the tap-alone key given
\* to the constructor when one was given, and the trigger key when none, or
\* the empty string, was given.
C27_TapAlone ==
    (Built /\ Len(layer.trigger_keys) = 1) =>
      LET m == Manip(Trees[1])
          given == layer.to_if_alone
      IN /\ Has(m, "to_if_alone")
         /\ Len(m.to_if_alone) = 1
         /\ DOMAIN m.to_if_alone[1] = {"key_code"}
         /\ given = None => m.to_if_alone[1].key_code = layer.trigger_keys[1]
         /\ given = Str("") => m.to_if_alone[1].key_code = layer.trigger_keys[1]
         /\ (given # None /\ given # Str("")) => m.to_if_alone[1].key_code = given.v

\* a layer made with to_if_alone="" was built: tapping its trigger sends the
\* trigger key
C27_Witness ==
    /\ Built /\ Len(layer.trigger_keys) = 1
    /\ layer.to_if_alone = Str("")
    /\ Manip(Trees[1]).to_if_alone = << KeyCode("right_command") >>

-----------------------------------------------------------------------------
(* Rules a script keeps while it goes on calling the builder *)

\* a manipulator object a returned Rule holds, as it reads when the layer has
\* become self: SimultaneousManipulator keeps `conditions or []`, which is
\* the list self.conditions itself when that was not empty, and when_app,
\* unless_app and unless_variable append to that list in place
ManipulatorNow(m, self) ==
    IF m.cls = "SimultaneousManipulator" /\ Len(m.extra_conditions) > 0
    THEN [m EXCEPT !.extra_conditions = self.conditions]
    ELSE m

\* a Rule object build_rules() returned, as it reads when the layer is self
RuleNow(rule, self) ==
    [ rule EXCEPT !.manipulators =
        [ i \in 1..Len(rule.manipulators) |-> ManipulatorNow(rule.manipulators[i], self) ] ]

\* rules = layer.build_rules(), kept by the script together with the trees
\* the rules build to at once
KeepRules ==
    /\ Constructed /\ ret.kind = "none"
    /\ LET r == build_rules(layer, registry)
       IN /\ r.kind = "rules"
          /\ layer' = r.self
          /\ ret' = [ kind |-> "rules", rules |-> r.rules, trees |-> TreesOf(r),
                      touched |-> 0 ]
    /\ UNCHANGED <<out, registry, heap, config, compiled, daemon, disk, saved, proc>>

InitSnapshot ==
    /\ layer = LayerStackBuilder("hyper", Str("right_command"), None).v
    /\ out = NoOutcome
    /\ registry = BuiltinTemplates
    /\ heap = NoHeap
    /\ ret = NoTrees
    /\ config = NoConfig
    /\ compiled = NoCompiled
    /\ daemon = NoDaemon
    /\ disk = NoDisk
    /\ saved = NoSave
    /\ proc = NoProc

NextSnapshot ==
    \/ Map
    \/ MapMacro
    \/ MapCombo
    \/ MapSequence
    \/ WhenApp
    \/ UnlessApp
    \/ UnlessVariable
    \/ SetSequenceTimeout
    \/ KeepRules

SpecSnapshot == InitSnapshot /\ [][NextSnapshot]_vars

\* C28: the rules build_rules() returned are snapshots: after any later call
\* of map, map_macro, map_combo, map_sequence, when_app, unless_app,
\* unless_variable or set_sequence_timeout on the layer, each of them builds
\* to the tree it built to when build_rules() returned.
C28_Snapshot ==
    ret.kind = "rules" =>
       \A i \in 1..Len(ret.rules) :
          RuleBuild(RuleNow(ret.rules[i], layer)).v = ret.trees[i]

-----------------------------------------------------------------------------
(* The names of the step variables *)

\* C29: within one layer the step variables made for different pairs of a
\* sequence's key list and a step index have different names, and none of
\* them is the layer variable's name, whatever non-empty key strings the
\* sequences have, underscores included.
C29_DistinctStepVars ==
    Constructed =>
       \A s \in 1..NumSequences, t \in 1..NumSequences :
          \A i \in 1..Len(VarsOf(s)), j \in 1..Len(VarsOf(t)) :
             /\ VarsOf(s)[i] # layer.name
             /\ (layer.sequences[s].keys # layer.sequences[t].keys \/ i # j) =>
                   VarsOf(s)[i] # VarsOf(t)[j]

====
